---- MODULE Spec2Model ----
(***************************************************************************)
(* Model of the context-aware finding pipeline of reviewer-mcp:            *)
(* IssueCategorizer, ConfidenceScorer, IntentAnalyzer, CodeAnalyzer and    *)
(* the github_review_pr tool handler that drives them.                     *)
(*                                                                         *)
(* Strings of the program (code lines, file paths, rule texts) are drawn   *)
(* from small sets of concrete strings.  A regular expression of the code  *)
(* is modelled by the set of those strings it matches, a substring test by *)
(* the table Substrings.                                                   *)
(***************************************************************************)
EXTENDS Integers, Sequences, FiniteSets

VARIABLES
    ruleHistory,   \* ConfidenceScorer.ruleHistory of the current scorer
    scored,        \* the last calculateConfidence call: issue, context, score
    categorized,   \* the last categorize call: issue and its category info
    catIn,         \* the argument of the last categorizeMultiple call
    catOut,        \* the value the last categorizeMultiple call returned
    review,        \* the input of the last github_review_pr invocation
    comments,      \* the comments that invocation returned to its caller
    summary,       \* the summary that invocation returned
    firstRun,      \* comments and summary of the first invocation
    runs,          \* number of github_review_pr invocations so far
    analyzer,      \* the CodeAnalyzer under construction or in use, if any
    analysis,      \* the last analyzeFile call: its arguments and its result
    thrown,        \* the method a TypeError was thrown in, if any
    config,        \* config.review.mode of the process
    invocation,    \* the last review tool invocation and the calls it made
    formatted,     \* the last formatCommentBody call and the body it returned
    prIntent,      \* the last analyzePRIntent call and the PRIntent it returned
    historyScore,  \* the last scoreHistory call: ruleId, store and sub-score
    fileIntents,   \* the analyzeFileIntent calls made: filename, content, result
    retry,         \* one retryWithBackoff call: its options, position and trace
    parsed,        \* the last parseMarkdown call: content, instructions, TypeError
    diffed,        \* the last getChangedLines call: the diff and what it returned
    manager,       \* the InstructionsManager, its loadInstructions calls and their trace
    relevantCalls,      \* the instruction set given to manager.getRelevantInstructions, and its calls
    submission     \* a bitbucketService.submitReview call and the pull request comments

\* the variables of the scorer, the categorizer and the review runs
pipelineVars == <<ruleHistory, scored, categorized, catIn, catOut,
                  review, comments, summary, firstRun, runs>>

\* the variables of the components driven on their own
componentVars == <<analyzer, analysis, thrown, config, invocation, formatted, prIntent>>

\* the variables of the helpers driven on their own
utilityVars == <<historyScore, fileIntents, retry, parsed, diffed, manager, relevantCalls, submission>>

vars == <<ruleHistory, scored, categorized, catIn, catOut,
          review, comments, summary, firstRun, runs,
          analyzer, analysis, thrown, config, invocation, formatted, prIntent,
          historyScore,
          fileIntents,
          retry,
          parsed,
          diffed,
          manager,
          relevantCalls,
          submission>>

\* ---------------------------------------------------------------- bounds
MaxFeedback == 2      \* recordFeedback calls on one scorer
MaxHistory == 4       \* recordFeedback calls on a scorer whose history is read
MaxIntentCalls == 2   \* analyzeFileIntent calls on one IntentAnalyzer
MaxRetries == 3       \* largest options.maxRetries given to retryWithBackoff
MaxDocLines == 4      \* non-empty lines of an instruction file
MaxHunkLines == 3     \* change lines of the first hunk of a diff
MaxLoads == 3         \* loadInstructions calls on one InstructionsManager
MaxClears == 1        \* clearCache calls on one InstructionsManager
MaxIssues == 3        \* length of the argument of categorizeMultiple
MaxFiles == 1         \* files of one review
MaxLines == 1         \* lines of one file
MaxReviewFeedback == 1  \* recordFeedback calls between two reviews
MaxChanged == 2       \* entries of a changed-line list
MaxLabels == 2        \* labels of a pull request

\* ------------------------------------------------------- JavaScript values
None == "none"        \* undefined / null / absent property
NaN == -1000          \* the number NaN (0/0); every other number is an Int
NoConfidence == -1    \* an issue without a confidence property

EmptyMap == [x \in {} |-> 0]

Add(a, b) == IF a = NaN \/ b = NaN THEN NaN ELSE a + b

\* Math.min(100, Math.max(0, score)); both return NaN for a NaN argument
Clamp(score) ==
    IF score = NaN THEN NaN
    ELSE IF score < 0 THEN 0
    ELSE IF score > 100 THEN 100
    ELSE score

\* issue.tags?.…  and issue.ruleId of an object that may lack the property
TagsOf(issue) == IF "tags" \in DOMAIN issue THEN issue.tags ELSE {}
RuleIdOf(issue) == IF "ruleId" \in DOMAIN issue THEN issue.ruleId ELSE None
LanguageOf(issue) == IF "language" \in DOMAIN issue THEN issue.language ELSE None
PatternOf(issue) == IF "pattern" \in DOMAIN issue THEN issue.pattern ELSE None
MatchTypeOf(issue) == IF "matchType" \in DOMAIN issue THEN issue.matchType ELSE None
SourceOf(issue) == IF "source" \in DOMAIN issue THEN issue.source ELSE None
\* (x.confidence || 0)
ConfidenceOr0(issue) ==
    IF "confidence" \in DOMAIN issue /\ issue.confidence # NoConfidence
       /\ issue.confidence # NaN
    THEN issue.confidence ELSE 0

RECURSIVE SeqSum(_)
SeqSum(s) == IF s = <<>> THEN 0 ELSE Head(s) + SeqSum(Tail(s))

RECURSIVE Flatten(_)
Flatten(ss) == IF ss = <<>> THEN <<>> ELSE Head(ss) \o Flatten(Tail(ss))

CountCategory(s, c) == Cardinality({i \in DOMAIN s : s[i].category = c})
CountSeverity(s, v) == Cardinality({i \in DOMAIN s : s[i].severity = v})

\* ===================================================== IssueCategorizer
bugTags ==
    {"security", "vulnerability", "injection", "xss", "csrf", "logic-error",
     "null-reference", "undefined", "crash", "exception", "error",
     "race-condition", "deadlock", "leak", "memory-leak", "resource-leak",
     "type-error", "incorrect-operator", "wrong-comparison"}

bugRuleIds ==
    {"sql-injection", "xss-vulnerability", "hardcoded-secrets",
     "insecure-random", "path-traversal", "command-injection",
     "xxe-vulnerability"}

refactorTags ==
    {"complexity", "duplication", "dry-violation", "performance", "n+1-query",
     "inefficient-algorithm", "maintainability", "naming", "unclear-code",
     "documentation", "missing-docs", "coverage", "missing-tests",
     "design-pattern", "coupling", "cohesion"}

refactorRuleIds ==
    {"function-length", "function-complexity", "code-duplication",
     "nested-loops", "missing-error-handling", "unused-variable",
     "unused-import"}

isBug(issue) ==
    \/ TagsOf(issue) \cap bugTags # {}
    \/ RuleIdOf(issue) \in bugRuleIds

isRefactor(issue) ==
    \/ TagsOf(issue) \cap refactorTags # {}
    \/ RuleIdOf(issue) \in refactorRuleIds

getBugSeverity_vulnerabilityOnly(issue) ==
    IF "vulnerability" \in TagsOf(issue) THEN "critical"
    ELSE IF TagsOf(issue) \cap {"crash", "exception", "logic-error", "null-reference"} # {}
         THEN "high"
    ELSE "medium"

getBugSeverity(issue) ==
    IF "security" \in TagsOf(issue) \/ "vulnerability" \in TagsOf(issue) THEN "critical"
    ELSE IF TagsOf(issue) \cap {"crash", "exception", "logic-error", "null-reference"} # {}
         THEN "high"
    ELSE "medium"

getRefactorSeverity(issue) ==
    IF TagsOf(issue) \cap {"performance", "n+1-query", "missing-error-handling"} # {}
    THEN "high"
    ELSE "medium"

BugInfo(issue) ==
    [category |-> "BUG", severity |-> getBugSeverity(issue),
     emoji |-> "red_circle", sortOrder |-> 1]

RefactorInfo(issue) ==
    [category |-> "REFACTOR", severity |-> getRefactorSeverity(issue),
     emoji |-> "yellow_circle", sortOrder |-> 2]

SuggestionInfo ==
    [category |-> "SUGGESTION", severity |-> "low",
     emoji |-> "blue_circle", sortOrder |-> 3]

categorize_refactorFirst(issue) ==
    IF isRefactor(issue) THEN RefactorInfo(issue)
    ELSE IF isBug(issue) THEN BugInfo(issue)
    ELSE SuggestionInfo

categorize(issue) ==
    IF isBug(issue) THEN BugInfo(issue)
    ELSE IF isRefactor(issue) THEN RefactorInfo(issue)
    ELSE SuggestionInfo

\* { ...issue, ...this.categorize(issue) }: the four category properties are
\* added to the issue, replacing properties of the same name
Spread(issue, info) ==
    [k \in DOMAIN issue \cup DOMAIN info |->
        IF k \in DOMAIN info THEN info[k] ELSE issue[k]]

\* the comparator handed to Array.prototype.sort
compare_ascendingConfidence(a, b) ==
    IF a.sortOrder # b.sortOrder THEN a.sortOrder - b.sortOrder
    ELSE ConfidenceOr0(a) - ConfidenceOr0(b)

compare(a, b) ==
    IF a.sortOrder # b.sortOrder THEN a.sortOrder - b.sortOrder
    ELSE ConfidenceOr0(b) - ConfidenceOr0(a)

\* Array.prototype.sort is stable: x goes behind every element that does
\* not compare greater than it
RECURSIVE InsertSorted(_, _)
InsertSorted(x, s) ==
    IF s = <<>> THEN <<x>>
    ELSE IF compare(Head(s), x) <= 0 THEN <<Head(s)>> \o InsertSorted(x, Tail(s))
    ELSE <<x>> \o s

RECURSIVE SortIssues(_)
SortIssues(s) ==
    IF s = <<>> THEN <<>>
    ELSE InsertSorted(s[Len(s)], SortIssues(SubSeq(s, 1, Len(s) - 1)))

categorizeMultiple(issues) ==
    LET categorizedIssues == SortIssues([i \in DOMAIN issues |->
                                 Spread(issues[i], categorize(issues[i]))])
    IN  [issues |-> categorizedIssues,
         stats |-> [total |-> Len(categorizedIssues),
                    bugs |-> CountCategory(categorizedIssues, "BUG"),
                    refactors |-> CountCategory(categorizedIssues, "REFACTOR"),
                    suggestions |-> CountCategory(categorizedIssues, "SUGGESTION"),
                    critical |-> CountSeverity(categorizedIssues, "critical"),
                    high |-> CountSeverity(categorizedIssues, "high"),
                    medium |-> CountSeverity(categorizedIssues, "medium"),
                    low |-> CountSeverity(categorizedIssues, "low")]]

\* ========================================================= string tables
\* s.includes(sub), for the strings of this model: file names and rule texts
\* (rule texts are looked up lower-cased, as matchRule does)
Substrings ==
    {<<"src/debug.js", "debug">>,
     <<"remove console.log statements before merging", "console.log">>,
     <<"avoid print statements in production code", "print statement">>,
     <<"avoid print statements in production code", "avoid">>,
     <<"flag commented-out code", "commented-out code">>,
     <<"flag commented-out code", "flag">>,
     <<"// DEBUG trace", "// DEBUG">>,
     <<"wip", "wip">>, <<"draft pr", "draft">>, <<"security", "security">>,
     <<"hotfix", "hotfix">>, <<"urgent", "urgent">>,
     <<"breaking-change", "breaking">>,
     <<"use const by default, let when reassignment needed, avoid var", "avoid">>,
     <<"use const by default, let when reassignment needed, avoid var", "var">>,
     <<"prefer template literals over string concatenation", "template literal">>}

Includes(s, sub) == <<s, sub>> \in Substrings

\* ====================================================== ConfidenceScorer
\* new ConfidenceScorer(): this.ruleHistory = new Map()
ConfidenceScorerNew_sharedStore == ruleHistory

ConfidenceScorerNew == EmptyMap

scorePatternMatch(issue) ==
    IF PatternOf(issue) = None THEN 15
    ELSE IF "security" \in TagsOf(issue) THEN 30
    ELSE IF MatchTypeOf(issue) \in {"exact", "ast"} THEN 25
    ELSE IF MatchTypeOf(issue) = "regex" THEN 20
    ELSE IF MatchTypeOf(issue) = "keyword" THEN 10
    ELSE 15

scoreContext(issue, context) ==
    IF context.isTestFile /\ "production-only" \in TagsOf(issue) THEN 0
    ELSE IF (context.isTestFile \/ Includes(context.filename, "debug"))
            /\ RuleIdOf(issue) = "no-console" THEN 5
    ELSE IF context.isConfigFile /\ RuleIdOf(issue) = "magic-numbers" THEN 0
    ELSE IF context.isMigrationFile /\ "raw-sql" \in TagsOf(issue) THEN 5
    ELSE IF LanguageOf(issue) # None /\ LanguageOf(issue) = context.language THEN 30
    ELSE IF LanguageOf(issue) = None THEN 20
    ELSE 10

scoreRuleType(issue) ==
    IF SourceOf(issue) = "custom" THEN 20
    ELSE IF LanguageOf(issue) # None THEN 15
    ELSE IF "security" \in TagsOf(issue) THEN 18
    ELSE 10

highAccuracyRules ==
    {"sql-injection", "xss-vulnerability", "hardcoded-secrets",
     "null-reference", "undefined-variable"}

mediumAccuracyRules == {"function-length", "complexity", "no-console", "no-var"}

scoreHistory_tableFirst(history, ruleId) ==
    IF ruleId = None THEN 10
    ELSE IF ruleId \in highAccuracyRules THEN 18
    ELSE IF ruleId \in mediumAccuracyRules THEN 14
    ELSE IF ruleId \in DOMAIN history THEN
        LET h == history[ruleId]
        IN  IF h.correct + h.falsePositive = 0 THEN NaN
            ELSE (20 * h.correct) \div (h.correct + h.falsePositive)
    ELSE 10

\* Math.floor(history.correct / (history.correct + history.falsePositive) * 20);
\* 0 / 0 is NaN
scoreHistory(history, ruleId) ==
    IF ruleId = None THEN 10
    ELSE IF ruleId \in DOMAIN history THEN
        LET h == history[ruleId]
        IN  IF h.correct + h.falsePositive = 0 THEN NaN
            ELSE (20 * h.correct) \div (h.correct + h.falsePositive)
    ELSE IF ruleId \in highAccuracyRules THEN 18
    ELSE IF ruleId \in mediumAccuracyRules THEN 14
    ELSE 10

calculateConfidence(history, issue, context) ==
    Clamp(Add(Add(Add(scorePatternMatch(issue), scoreContext(issue, context)),
                  scoreRuleType(issue)),
              scoreHistory(history, RuleIdOf(issue))))

WithEntry_freshStore(history, ruleId) ==
    IF ruleId \in DOMAIN history THEN history
    ELSE [r \in {ruleId} |-> [correct |-> 0, falsePositive |-> 0]]

WithEntry(history, ruleId) ==
    IF ruleId \in DOMAIN history THEN history
    ELSE [r \in DOMAIN history \cup {ruleId} |->
            IF r = ruleId THEN [correct |-> 0, falsePositive |-> 0] ELSE history[r]]

recordFeedback_noElseBranch(history, ruleId, wasCorrect) ==
    LET h == WithEntry(history, ruleId)
    IN  IF wasCorrect
        THEN [h EXCEPT ![ruleId].correct = @ + 1]
        ELSE h

recordFeedback(history, ruleId, wasCorrect) ==
    LET h == WithEntry(history, ruleId)
    IN  IF wasCorrect
        THEN [h EXCEPT ![ruleId].correct = @ + 1]
        ELSE [h EXCEPT ![ruleId].falsePositive = @ + 1]

\* number of recordFeedback calls a store has seen
RECURSIVE FeedbackCount(_, _)
FeedbackCount(history, ids) ==
    IF ids = {} THEN 0
    ELSE LET r == CHOOSE x \in ids : TRUE
         IN  history[r].correct + history[r].falsePositive
             + FeedbackCount(history, ids \ {r})

\* ============================================================ code lines
LineApiKey == "const apiKey = \"sk-1234567890abcdef\";"
LineConsole == "console.log(\"debug\")"
LineCommentedLog == "// debug = console.log(x)"
LineVar == "var x = 1"
LinePrintToken == "print(token = \"t\")"
LineEval == "eval(code)"
LineInnerHtml == "el.innerHTML = html"
LineExecute == "cursor.execute(f\"SELECT {x}\")"
LineConcat == "const s = \"a\" + b + \"c\""

\* the lines a review of this model is made of
Lines == {LineApiKey, LineConsole, LineCommentedLog, LineVar, LinePrintToken}

\* Each regular expression of CodeAnalyzer is the set of lines it matches.
\* /(api[_-]?key|apikey)\s*=\s*['"][^'"]+['"]/i
ApiKeyPattern == {LineApiKey}
\* /(password|passwd|pwd)\s*=\s*['"][^'"]+['"]/i
PasswordPattern == {}
\* /(secret|token)\s*=\s*['"][^'"]+['"]/i
SecretPattern == {LinePrintToken}
\* /-----BEGIN (RSA |)PRIVATE KEY-----/
PrivateKeyPattern == {}
\* /\beval\s*\(/
EvalPattern == {LineEval}
\* /\.innerHTML\s*=/
InnerHtmlPattern == {LineInnerHtml}
\* /\.textContent\s*=/
TextContentPattern == {}
\* /execute\s*\(\s*["'].*%s/  and  /execute\s*\(\s*f["']/
ExecuteFormatPattern == {}
ExecuteFStringPattern == {LineExecute}
\* /console\.log\(/
ConsoleLogPattern == {LineConsole, LineCommentedLog}
\* /\bprint\(/
PrintPattern == {LinePrintToken}
\* /^\s*#\s*[a-z_]\w*\s*[=(]/  and  /^\s*\/\/\s*[a-z_]\w*\s*[=(]/
PythonCommentPattern == {}
SlashCommentPattern == {LineCommentedLog}
\* /\bvar\s+\w+/
VarPattern == {LineVar}
\* /['"][^'"]*\+[^'"]*['"]/
ConcatPattern == {LineConcat}

\* pattern.test(line)
Test(pattern, line) == line \in pattern

\* ============================================================ file paths
\* paths given to the IntentAnalyzer on its own: paths that satisfy the
\* predicates of two file types, and the same paths in another letter case
\* and with backslashes
IntentPaths ==
    {"src/app.js", "SRC\\App.JS",
     "src/__tests__/__mocks__/api.js", "Src\\__Tests__\\__Mocks__\\Api.js",
     "__mocks__/db.config.js",
     "config/migrations/2024_01_02_init.sql",
     "Config\\Migrations\\2024_01_02_init.SQL",
     "db/migrations/run.sh", "scripts/types/gen.d.ts", "webpack.d.ts",
     "webpack.config.js", "Webpack.Config.JS", "vite.setup.mjs",
     "tests/foo.js", "lib/tests/foo.js"}

PathSrcJs == "src/foo.js"
PathTestJs == "tests/foo.test.js"
PathMockJs == "__mocks__/Api.js"
PathScriptPy == "scripts/run.py"
PathSrcPy == "src/app.py"

\* the file names a review of this model is made of
Paths == {PathSrcJs, PathTestJs, PathMockJs, PathScriptPy, PathSrcPy}

\* filename.toLowerCase().replace(/\\/g, '/')
NormalizedPath ==
    [p \in Paths \cup IntentPaths |->
        CASE p = PathMockJs -> "__mocks__/api.js"
          [] p = "SRC\\App.JS" -> "src/app.js"
          [] p = "Src\\__Tests__\\__Mocks__\\Api.js" -> "src/__tests__/__mocks__/api.js"
          [] p = "Config\\Migrations\\2024_01_02_init.SQL" ->
                "config/migrations/2024_01_02_init.sql"
          [] p = "Webpack.Config.JS" -> "webpack.config.js"
          [] OTHER -> p]

\* filename.split('.').pop()?.toLowerCase()
Extension ==
    [p \in Paths |-> IF p \in {PathScriptPy, PathSrcPy} THEN "py" ELSE "js"]

languageMap ==
    [ext \in {"js", "jsx", "ts", "tsx", "py", "java", "go", "rb", "php", "cs",
              "cpp", "c", "rs", "swift", "kt", "md", "json", "yaml", "yml",
              "xml", "html", "css", "scss", "sql", "sh", "bash"} |->
        CASE ext \in {"js", "jsx"} -> "javascript"
          [] ext \in {"ts", "tsx"} -> "typescript"
          [] ext = "py" -> "python"
          [] ext = "rb" -> "ruby"
          [] ext = "cs" -> "csharp"
          [] ext = "rs" -> "rust"
          [] ext = "kt" -> "kotlin"
          [] ext = "md" -> "markdown"
          [] ext \in {"yaml", "yml"} -> "yaml"
          [] ext \in {"sh", "bash"} -> "shell"
          [] OTHER -> ext]

detectLanguage(filename) ==
    IF Extension[filename] \in DOMAIN languageMap
    THEN languageMap[Extension[filename]] ELSE "unknown"

\* ======================================================== IntentAnalyzer
\* The predicates of detectFileType, each the set of normalized paths it
\* accepts, in the order the function tries them.
\* /\.(test|spec)\.(js|ts|jsx|tsx|py|java|go|rb)$/
TestSuffixPaths == {"tests/foo.test.js"}
\* includes('__tests__/') || includes('/tests/')
TestDirPaths == {"src/__tests__/__mocks__/api.js", "lib/tests/foo.js"}
\* includes('__mocks__/') || includes('__fixtures__/')
MockDirPaths ==
    {"__mocks__/api.js", "src/__tests__/__mocks__/api.js", "__mocks__/db.config.js"}
\* the four config predicates
ConfigPaths ==
    {"__mocks__/db.config.js", "webpack.config.js",
     "config/migrations/2024_01_02_init.sql"}
\* includes('/migrations/') || includes('/migrate/'), /\d{4}_\d{2}_\d{2}_.*\.(js|sql|py)/
MigrationPaths == {"config/migrations/2024_01_02_init.sql", "db/migrations/run.sh"}
\* /^scripts?\//  and  /\.(sh|bash)$/
ScriptPaths == {"scripts/run.py", "db/migrations/run.sh", "scripts/types/gen.d.ts"}
\* endsWith('.d.ts') || includes('/types/')
TypesPaths == {"scripts/types/gen.d.ts", "webpack.d.ts"}
\* /^(webpack|vite|rollup|babel)\./
BuildPaths == {"webpack.d.ts", "webpack.config.js", "vite.setup.mjs"}

detectFileType_configBeforeTest(filename) ==
    LET normalizedPath == NormalizedPath[filename]
    IN  IF normalizedPath \in ConfigPaths THEN "config"
        ELSE IF normalizedPath \in TestSuffixPaths THEN "test"
        ELSE IF normalizedPath \in TestDirPaths THEN "test"
        ELSE IF normalizedPath \in MockDirPaths THEN "mock"
        ELSE IF normalizedPath \in MigrationPaths THEN "migration"
        ELSE IF normalizedPath \in ScriptPaths THEN "script"
        ELSE IF normalizedPath \in TypesPaths THEN "types"
        ELSE IF normalizedPath \in BuildPaths THEN "build"
        ELSE "production"

detectFileType(filename) ==
    LET normalizedPath == NormalizedPath[filename]
    IN  IF normalizedPath \in TestSuffixPaths THEN "test"
        ELSE IF normalizedPath \in TestDirPaths THEN "test"
        ELSE IF normalizedPath \in MockDirPaths THEN "mock"
        ELSE IF normalizedPath \in ConfigPaths THEN "config"
        ELSE IF normalizedPath \in MigrationPaths THEN "migration"
        ELSE IF normalizedPath \in ScriptPaths THEN "script"
        ELSE IF normalizedPath \in TypesPaths THEN "types"
        ELSE IF normalizedPath \in BuildPaths THEN "build"
        ELSE "production"

getAllowedPatterns_testDisallowsConsole(fileType) ==
    CASE fileType = "test" ->
            {"console.debug", "magic-numbers", "any-type", "mock-data",
             "hardcoded-values"}
      [] fileType = "mock" ->
            {"console.log", "magic-numbers", "unused-variables", "hardcoded-values"}
      [] fileType = "config" -> {"magic-numbers", "no-validation", "hardcoded-values"}
      [] fileType = "migration" -> {"raw-sql", "no-rollback", "magic-numbers"}
      [] fileType = "script" -> {"console.log", "process.exit", "magic-numbers"}
      [] fileType = "types" -> {"no-implementation", "any-type"}
      [] fileType = "build" -> {"magic-numbers", "require-calls"}
      [] OTHER -> {}

getAllowedPatterns(fileType) ==
    CASE fileType = "test" ->
            {"console.log", "console.debug", "magic-numbers", "any-type",
             "mock-data", "hardcoded-values"}
      [] fileType = "mock" ->
            {"console.log", "magic-numbers", "unused-variables", "hardcoded-values"}
      [] fileType = "config" -> {"magic-numbers", "no-validation", "hardcoded-values"}
      [] fileType = "migration" -> {"raw-sql", "no-rollback", "magic-numbers"}
      [] fileType = "script" -> {"console.log", "process.exit", "magic-numbers"}
      [] fileType = "types" -> {"no-implementation", "any-type"}
      [] fileType = "build" -> {"magic-numbers", "require-calls"}
      [] OTHER -> {}

\* the properties of the file intent that analyzeLine and matchRule read
analyzeFileIntent(filename) ==
    LET type == detectFileType(filename)
    IN  [type |-> type,
         isProduction |-> type = "production",
         isTestFile |-> type = "test",
         isConfigFile |-> type = "config",
         isMigrationFile |-> type = "migration",
         allowedPatterns |-> getAllowedPatterns(type)]

\* detectFilePurpose(filename, content): null for an empty content
detectFilePurpose(filename, content) ==
    IF content = "" THEN None
    ELSE IF Includes(content, "// DEBUG") \/ Includes(content, "// TEMPORARY")
    THEN "debug"
    ELSE IF Includes(content, "// EXPERIMENTAL") \/ Includes(filename, "experiment")
    THEN "experimental"
    ELSE None

\* ================================================================= rules
RuleConsole ==
    [text |-> "Remove console.log statements before merging", isPattern |-> TRUE]
RulePrint ==
    [text |-> "Avoid print statements in production code", isPattern |-> TRUE]
RuleCommented == [text |-> "Flag commented-out code", isPattern |-> TRUE]
RuleGuideline == [text |-> "Write descriptive names", isPattern |-> FALSE]
RuleVar ==
    [text |-> "Use const by default, let when reassignment needed, avoid var",
     isPattern |-> TRUE]
RuleTemplate ==
    [text |-> "Prefer template literals over string concatenation",
     isPattern |-> FALSE]

\* rule.text.toLowerCase()
ToLowerCase(text) ==
    CASE text = RuleConsole.text -> "remove console.log statements before merging"
      [] text = RulePrint.text -> "avoid print statements in production code"
      [] text = RuleCommented.text -> "flag commented-out code"
      [] text = RuleGuideline.text -> "write descriptive names"
      [] text = RuleVar.text ->
            "use const by default, let when reassignment needed, avoid var"
      [] text = RuleTemplate.text ->
            "prefer template literals over string concatenation"
      [] text = "Style (Language-Specific)" -> "style (language-specific)"
      [] text = "Review Tone" -> "review tone"
      [] text = "JavaScript/TypeScript" -> "javascript/typescript"
      [] text = "JavaScript" -> "javascript"
      [] text = "WIP" -> "wip"
      [] text = "Draft PR" -> "draft pr"
      [] text = "FIX" -> "fix"
      [] text = "Constructor" -> "constructor"
      [] OTHER -> text

\* ==================================================== InstructionsParser
isPatternRule(text) ==
    \E keyword \in {"check for", "ensure", "verify", "look for", "flag", "must",
                     "should not", "avoid"} :
        Includes(ToLowerCase(text), keyword)

determineSeverity(text) ==
    LET lowerText == ToLowerCase(text)
    IN  IF Includes(lowerText, "security") \/ Includes(lowerText, "vulnerability")
           \/ Includes(lowerText, "must") THEN "critical"
        ELSE IF Includes(lowerText, "should") \/ Includes(lowerText, "ensure")
                \/ Includes(lowerText, "verify") THEN "warning"
        ELSE "info"

\* none of the rule texts of this model starts with a checkbox
parseRule(ruleText) ==
    [text |-> ruleText, isPattern |-> isPatternRule(ruleText),
     severity |-> determineSeverity(ruleText)]

\* The trimmed lines of an instruction file: the prefix parseMarkdown finds
\* with startsWith, and line.substring(prefix.length).trim(); "(fence)" is
\* the line of three backquotes that opens or closes a code block
Markdown ==
    [line \in {"## Style (Language-Specific)", "## Review Tone", "## Constructor",
               "### JavaScript/TypeScript", "### JavaScript",
               "- Use const by default, let when reassignment needed, avoid var",
               "- Flag commented-out code", "Be constructive.", "(fence)"} |->
        CASE line = "## Style (Language-Specific)" ->
                [prefix |-> "## ", rest |-> "Style (Language-Specific)"]
          [] line = "## Review Tone" -> [prefix |-> "## ", rest |-> "Review Tone"]
          [] line = "## Constructor" -> [prefix |-> "## ", rest |-> "Constructor"]
          [] line = "### JavaScript/TypeScript" ->
                [prefix |-> "### ", rest |-> "JavaScript/TypeScript"]
          [] line = "### JavaScript" -> [prefix |-> "### ", rest |-> "JavaScript"]
          [] line = "- Use const by default, let when reassignment needed, avoid var" ->
                [prefix |-> "- ", rest |-> RuleVar.text]
          [] line = "- Flag commented-out code" ->
                [prefix |-> "- ", rest |-> RuleCommented.text]
          [] line = "(fence)" -> [prefix |-> "(fence)", rest |-> ""]
          [] OTHER -> [prefix |-> "", rest |-> line]]

\* instructions.categories and instructions.languageSpecific are object
\* literals: bucket[key] of a key no header has created is undefined, except
\* for the lower-case property names they inherit from Object.prototype,
\* whose values are truthy and have no push method
ObjectPrototypeKeys == {"constructor", "__proto__"}

\* bucket[key].push(rule) on the categories, which keep the order their keys
\* were inserted in
PushToCategory(categories, name, rule) ==
    [c \in DOMAIN categories |->
        IF categories[c].name = name
        THEN [categories[c] EXCEPT !.rules = Append(@, rule)]
        ELSE categories[c]]

\* one round of the loop of parseMarkdown; st holds instructions,
\* currentCategory, currentLanguage and isInCodeBlock
parseMarkdownLine(st, line) ==
    LET prefix == Markdown[line].prefix
        rest == Markdown[line].rest
    IN  IF st.threw THEN st
        ELSE IF prefix = "(fence)" THEN [st EXCEPT !.isInCodeBlock = ~@]
        ELSE IF st.isInCodeBlock THEN st
        ELSE IF prefix = "## " THEN
            LET category == ToLowerCase(rest)
            IN  [st EXCEPT
                    !.currentCategory = category,
                    !.currentLanguage = None,
                    !.instructions.categories =
                        IF \/ \E c \in DOMAIN @ : @[c].name = category
                           \/ category \in ObjectPrototypeKeys
                        THEN @
                        ELSE Append(@, [name |-> category, rules |-> <<>>])]
        ELSE IF prefix = "### " THEN
            LET language == ToLowerCase(rest)
            IN  [st EXCEPT
                    !.currentLanguage = language,
                    !.instructions.languageSpecific =
                        IF language \in DOMAIN @ \/ language \in ObjectPrototypeKeys
                        THEN @
                        ELSE [l \in DOMAIN @ \cup {language} |->
                                IF l = language THEN <<>> ELSE @[l]]]
        ELSE IF prefix = "- " THEN
            LET rule == parseRule(rest)
            IN  IF st.currentLanguage # None
                THEN IF st.currentLanguage \in ObjectPrototypeKeys
                     THEN [st EXCEPT !.threw = TRUE]
                     ELSE [st EXCEPT
                             !.instructions.languageSpecific[st.currentLanguage] =
                                Append(@, rule)]
                ELSE IF st.currentCategory # None
                THEN IF st.currentCategory \in ObjectPrototypeKeys
                     THEN [st EXCEPT !.threw = TRUE]
                     ELSE [st EXCEPT !.instructions.categories =
                                    PushToCategory(@, st.currentCategory, rule)]
                ELSE [st EXCEPT !.instructions.global = Append(@, rule)]
        ELSE IF st.currentCategory = "review tone" /\ prefix = ""
        THEN [st EXCEPT !.instructions.tone = line]
        ELSE st

RECURSIVE parseMarkdownLines(_, _)
parseMarkdownLines(st, lines) ==
    IF lines = <<>> THEN st
    ELSE parseMarkdownLines(parseMarkdownLine(st, Head(lines)), Tail(lines))

\* content is the sequence of its non-empty lines, with at most one line of
\* tone text; threw: a TypeError left the loop
parseMarkdownLoop(content) ==
    parseMarkdownLines(
        [instructions |-> [categories |-> <<>>, languageSpecific |-> EmptyMap,
                           global |-> <<>>, tone |-> ""],
         currentCategory |-> None, currentLanguage |-> None,
         isInCodeBlock |-> FALSE, threw |-> FALSE],
        content)

parseMarkdown(content) == parseMarkdownLoop(content).instructions

\* The rule sets a review of this model is given.  categories keeps the
\* insertion order of the object's keys; languageSpecific is looked up by key.
InstructionsNone ==
    [categories |-> <<>>, languageSpecific |-> EmptyMap, tone |-> ""]

InstructionsConsole ==
    [categories |-> <<[name |-> "code quality", rules |-> <<RuleConsole>>]>>,
     languageSpecific |-> EmptyMap,
     tone |-> ""]

InstructionsFull ==
    [categories |->
        <<[name |-> "code quality",
           rules |-> <<RuleConsole, RuleGuideline, RuleCommented>>],
          [name |-> "logging", rules |-> <<RulePrint>>]>>,
     languageSpecific |-> [l \in {"javascript"} |-> <<RuleVar, RuleTemplate>>],
     tone |-> "Be constructive."]

InstructionSets == {InstructionsNone, InstructionsConsole, InstructionsFull}

\* ========================================================== CodeAnalyzer
SecretSuggestion == "Use environment variables or a secure secret management system"

SecurityTags == {"security", "vulnerability", "secrets"}

SecretIssue(message) ==
    [message |-> message, suggestion |-> SecretSuggestion,
     ruleId |-> "hardcoded-secrets", tags |-> SecurityTags]

When(cond, issue) == IF cond THEN <<issue>> ELSE <<>>

checkSecurity(line, language) ==
    When(Test(ApiKeyPattern, line), SecretIssue("Potential hardcoded API key detected"))
    \o When(Test(PasswordPattern, line), SecretIssue("Potential hardcoded password detected"))
    \o When(Test(SecretPattern, line), SecretIssue("Potential hardcoded secret detected"))
    \o When(Test(PrivateKeyPattern, line), SecretIssue("Private key found in code"))
    \o When(language \in {"javascript", "typescript"} /\ Test(EvalPattern, line),
            [message |-> "Use of eval() detected - potential security risk",
             suggestion |-> "Avoid eval() and use safer alternatives",
             ruleId |-> "dangerous-eval",
             tags |-> {"security", "vulnerability"}])
    \o When(language \in {"javascript", "typescript"}
            /\ Test(InnerHtmlPattern, line) /\ ~Test(TextContentPattern, line),
            [message |-> "Use of innerHTML detected - potential XSS vulnerability",
             suggestion |-> "Consider using textContent or sanitize the HTML first",
             ruleId |-> "xss-vulnerability",
             tags |-> {"security", "vulnerability", "xss"}])
    \o When(language = "python"
            /\ (Test(ExecuteFormatPattern, line) \/ Test(ExecuteFStringPattern, line)),
            [message |-> "Potential SQL injection vulnerability",
             suggestion |-> "Use parameterized queries instead of string formatting",
             ruleId |-> "sql-injection",
             tags |-> {"security", "vulnerability", "injection"}])

NoConsoleIssue ==
    [message |-> "console.log() statement found in production code",
     severity |-> "info",
     suggestion |-> "Remove console.log() statements before merging",
     ruleId |-> "no-console",
     tags |-> {"style", "production-only"},
     matchType |-> "regex"]

NoPrintIssue ==
    [message |-> "print() statement found in production code",
     severity |-> "info",
     suggestion |-> "Remove print() statements before merging or use proper logging",
     ruleId |-> "no-print",
     tags |-> {"style", "production-only"},
     matchType |-> "regex"]

NoCommentedCodeIssue ==
    [message |-> "Commented-out code detected",
     severity |-> "warning",
     suggestion |-> "Remove unused commented code",
     ruleId |-> "no-commented-code",
     tags |-> {"maintainability"},
     matchType |-> "regex"]

NoVarIssue ==
    [message |-> "Use of \"var\" detected",
     severity |-> "warning",
     suggestion |-> "Use const or let instead of var",
     ruleId |-> "no-var",
     tags |-> {"style", "modern-syntax"},
     matchType |-> "regex"]

PreferTemplateIssue ==
    [message |-> "String concatenation with + detected",
     severity |-> "info",
     suggestion |-> "Consider using template literals instead",
     ruleId |-> "prefer-template-literal",
     tags |-> {"style", "modern-syntax"},
     matchType |-> "regex"]

\* the commented-out code check that ends matchRule
matchCommentedCode(line, ruleLower, language) ==
    IF Includes(ruleLower, "commented-out code")
       /\ Test(IF language = "python" THEN PythonCommentPattern ELSE SlashCommentPattern,
               line)
    THEN <<NoCommentedCodeIssue>>
    ELSE <<>>

\* matchRule returns <<issue>>, or <<>> where the code returns null
matchRule(line, rule, language, fileIntent) ==
    LET ruleLower == ToLowerCase(rule.text)
    IN  IF Includes(ruleLower, "console.log") \/ Includes(ruleLower, "print statement")
        THEN IF "console.log" \in fileIntent.allowedPatterns THEN <<>>
             ELSE IF language \in {"javascript", "typescript"}
                     /\ Test(ConsoleLogPattern, line) THEN <<NoConsoleIssue>>
             ELSE IF language = "python" /\ Test(PrintPattern, line) THEN <<NoPrintIssue>>
             ELSE matchCommentedCode(line, ruleLower, language)
        ELSE matchCommentedCode(line, ruleLower, language)

matchLanguageRule(line, rule, language, fileIntent) ==
    LET ruleLower == ToLowerCase(rule.text)
    IN  IF language \in {"javascript", "typescript"}
        THEN IF Includes(ruleLower, "avoid") /\ Includes(ruleLower, "var")
                /\ Test(VarPattern, line) THEN <<NoVarIssue>>
             ELSE IF Includes(ruleLower, "template literal")
                     /\ Test(ConcatPattern, line) THEN <<PreferTemplateIssue>>
             ELSE <<>>
        ELSE <<>>

RECURSIVE applyInstructionRules(_, _, _, _)
applyInstructionRules(line, rules, language, fileIntent) ==
    IF rules = <<>> THEN <<>>
    ELSE LET rule == Head(rules)
         IN  (IF rule.isPattern THEN matchRule(line, rule, language, fileIntent)
              ELSE <<>>)
             \o applyInstructionRules(line, Tail(rules), language, fileIntent)

RECURSIVE applyLanguageRules(_, _, _, _)
applyLanguageRules(line, rules, language, fileIntent) ==
    IF rules = <<>> THEN <<>>
    ELSE matchLanguageRule(line, Head(rules), language, fileIntent)
             \o applyLanguageRules(line, Tail(rules), language, fileIntent)

getRelevantInstructions(instructions, language) ==
    [general |-> instructions.categories,
     languageSpecific |->
        IF language \in DOMAIN instructions.languageSpecific
        THEN instructions.languageSpecific[language] ELSE <<>>]

createComment(filename, line, message, severity, suggestion, confidence, category, emoji) ==
    [path |-> filename, line |-> line, message |-> message, severity |-> severity,
     suggestion |-> suggestion, confidence |-> confidence, category |-> category,
     emoji |-> emoji]

\* { ...issue, <properties> }: properties replace those of the issue
With(issue, properties) == Spread(issue, properties)

\* the raw issues of one line, in the order analyzeLine pushes them
rawIssuesOf(lineContent, language, instructions, fileIntent) ==
    LET securityIssues == checkSecurity(lineContent, language)
        security == [i \in DOMAIN securityIssues |->
            With(securityIssues[i],
                 [tags |-> securityIssues[i].tags,
                  ruleId |-> securityIssues[i].ruleId,
                  source |-> "builtin",
                  matchType |-> "regex"])]
        perCategory == [c \in DOMAIN instructions.general |->
            LET categoryIssues ==
                    applyInstructionRules(lineContent, instructions.general[c].rules,
                                          language, fileIntent)
            IN  [i \in DOMAIN categoryIssues |->
                    With(categoryIssues[i],
                         [source |-> "custom", tags |-> categoryIssues[i].tags])]]
        languageIssues ==
            applyLanguageRules(lineContent, instructions.languageSpecific,
                               language, fileIntent)
        perLanguage == [i \in DOMAIN languageIssues |->
            With(languageIssues[i],
                 [language |-> language, tags |-> languageIssues[i].tags,
                  source |-> "builtin"])]
    IN  security \o Flatten(perCategory) \o perLanguage

analyzeLine(history, lineContent, lineNumber, filename, language, instructions, fileIntent) ==
    LET context == [filename |-> filename, language |-> language,
                    lineNumber |-> lineNumber,
                    isTestFile |-> fileIntent.isTestFile,
                    isConfigFile |-> fileIntent.isConfigFile,
                    isMigrationFile |-> fileIntent.isMigrationFile,
                    fileType |-> fileIntent.type]
        rawIssues == rawIssuesOf(lineContent, language, instructions, fileIntent)
    IN  [i \in DOMAIN rawIssues |->
            LET issue == rawIssues[i]
                confidence == calculateConfidence(history, issue, context)
                categoryInfo == categorize(issue)
            IN  createComment(filename, lineNumber, issue.message,
                              categoryInfo.severity, issue.suggestion, confidence,
                              categoryInfo.category, categoryInfo.emoji)]

\* the lines analyzeFile hands to analyzeLine; file.content is the sequence
\* of its lines (content.split('\n'))
linesToAnalyze_wholeFile(file, changedLinesList) ==
    [i \in DOMAIN file.content |-> [line |-> i, content |-> file.content[i]]]

linesToAnalyze(file, changedLinesList) ==
    IF Len(changedLinesList) > 0 THEN changedLinesList
    ELSE [i \in DOMAIN file.content |-> [line |-> i, content |-> file.content[i]]]

analyzeFile(history, instructions, file, changedLinesList) ==
    LET language == detectLanguage(file.filename)
        fileIntent == analyzeFileIntent(file.filename)
        relevantInstructions == getRelevantInstructions(instructions, language)
        lines == linesToAnalyze(file, changedLinesList)
    IN  Flatten([k \in DOMAIN lines |->
            analyzeLine(history, lines[k].content, lines[k].line,
                        file.filename, language, relevantInstructions, fileIntent)])

\* changedLines maps file names to lists of changed lines
analyzeFiles(history, instructions, files, changedLines) ==
    Flatten([f \in DOMAIN files |->
        analyzeFile(history, instructions, files[f],
                    IF files[f].filename \in DOMAIN changedLines
                    THEN changedLines[files[f].filename] ELSE <<>>)])

\* Math.round(sum / n) of non-negative integers
RoundedMean(sum, n) == (2 * sum + n) \div (2 * n)

\* The summary text, as the sequence of the lines it is made of; a count line
\* carries the number it prints.
generateSummary(instructions, cs) ==
    LET stats == categorizeMultiple(cs).stats
        line(kind, n) == [kind |-> kind, n |-> n]
    IN  <<[kind |-> "heading", n |-> 0]>>
        \o (IF Len(cs) = 0 THEN <<line("no-issues", 0)>>
            ELSE <<line("found", stats.total)>>
                 \o (IF stats.bugs > 0 THEN <<line("BUG", stats.bugs)>> ELSE <<>>)
                 \o (IF stats.refactors > 0
                     THEN <<line("REFACTOR", stats.refactors)>> ELSE <<>>)
                 \o (IF stats.suggestions > 0
                     THEN <<line("SUGGESTION", stats.suggestions)>> ELSE <<>>)
                 \o (IF stats.critical > 0
                     THEN <<line("critical", stats.critical)>> ELSE <<>>)
                 \o <<line("average",
                           RoundedMean(SeqSum([i \in DOMAIN cs |-> ConfidenceOr0(cs[i])]),
                                       Len(cs)))>>)
        \o <<[kind |-> IF instructions.tone # "" THEN instructions.tone
                       ELSE "Please review the comments below.",
              n |-> 0]>>

\* ========================================= IntentAnalyzer.analyzePRIntent
\* prTitle.match(/^(feat|fix|refactor|perf|docs|test|chore|style|build|ci)
\* (?:\(([^)]+)\))?:\s*(.+)/i): <<>> for null, else the groups of the match
titleMatch(prTitle) ==
    LET groups(type, scope, description) ==
            <<[type |-> type, scope |-> scope, description |-> description]>>
    IN  CASE prTitle = "feat(api): add endpoint" -> groups("feat", "api", "add endpoint")
          [] prTitle = "FIX: crash on start" -> groups("FIX", None, "crash on start")
          [] prTitle = "refactor: split parser" -> groups("refactor", None, "split parser")
          [] prTitle = "perf: cache lookups" -> groups("perf", None, "cache lookups")
          [] prTitle = "docs: usage" -> groups("docs", None, "usage")
          [] prTitle = "test: parser cases" -> groups("test", None, "parser cases")
          [] prTitle = "style: format" -> groups("style", None, "format")
          [] prTitle = "chore: bump deps" -> groups("chore", None, "bump deps")
          [] prTitle = "ci: cache" -> groups("ci", None, "cache")
          [] OTHER -> <<>>

\* the switch on intent.type
applyTitleType(intent) ==
    CASE intent.type = "feat" ->
            [intent EXCEPT !.expectTests = TRUE, !.expectDocs = TRUE,
                !.focusAreas = <<"functionality", "edge-cases", "error-handling">>]
      [] intent.type = "fix" ->
            [intent EXCEPT !.expectTests = TRUE,
                !.focusAreas = <<"correctness", "regression", "edge-cases">>]
      [] intent.type = "refactor" ->
            [intent EXCEPT !.allowLargeDiffs = TRUE,
                !.focusAreas = <<"behavior-preservation", "no-logic-change",
                                 "maintainability">>]
      [] intent.type = "perf" ->
            [intent EXCEPT !.expectBenchmarks = TRUE,
                !.focusAreas = <<"performance", "benchmarks", "algorithmic-complexity">>]
      [] intent.type = "docs" ->
            [intent EXCEPT !.skipCodeChecks = TRUE,
                !.focusAreas = <<"documentation-quality">>]
      [] intent.type = "test" ->
            [intent EXCEPT !.focusAreas = <<"test-coverage", "test-quality">>]
      [] intent.type = "style" ->
            [intent EXCEPT !.focusAreas = <<"consistency", "formatting">>]
      [] intent.type = "chore" -> [intent EXCEPT !.strictness = "lenient"]
      [] OTHER -> intent

\* typeof label === 'string' ? label : label.name, of a label that is a
\* string, [string |-> s], or a label object, [name |-> s]; None is undefined
labelName_objectsOnly(label) ==
    IF "name" \in DOMAIN label THEN label.name ELSE None

labelName(label) ==
    IF "string" \in DOMAIN label THEN label.string
    ELSE IF "name" \in DOMAIN label THEN label.name
    ELSE None

\* one round of the loop over the labels
applyLabel(intent, label) ==
    LET normalizedLabel == ToLowerCase(labelName(label))
        breaking ==
            IF Includes(normalizedLabel, "breaking")
            THEN With([intent EXCEPT !.focusAreas = Append(@, "breaking-changes")],
                      [requireMigrationGuide |-> TRUE])
            ELSE intent
        security ==
            IF Includes(normalizedLabel, "security")
            THEN [breaking EXCEPT !.focusAreas = Append(@, "security"),
                                  !.strictness = "strict"]
            ELSE breaking
        urgent ==
            IF Includes(normalizedLabel, "hotfix") \/ Includes(normalizedLabel, "urgent")
            THEN With(security, [isUrgent |-> TRUE])
            ELSE security
    IN  IF Includes(normalizedLabel, "wip") \/ Includes(normalizedLabel, "draft")
        THEN With([urgent EXCEPT !.strictness = "lenient"], [isDraft |-> TRUE])
        ELSE urgent

RECURSIVE applyLabels(_, _)
applyLabels(intent, labels) ==
    IF labels = <<>> THEN intent
    ELSE applyLabels(applyLabel(intent, Head(labels)), Tail(labels))

\* the intent analyzePRIntent returns when it returns; prBody is not read
analyzePRIntent(prTitle, prBody, labels) ==
    LET intent == [type |-> "general", scope |-> None, description |-> prTitle,
                   expectTests |-> FALSE, expectDocs |-> FALSE,
                   allowLargeDiffs |-> FALSE, expectBenchmarks |-> FALSE,
                   skipCodeChecks |-> FALSE, focusAreas |-> <<>>,
                   strictness |-> "normal"]
        match == titleMatch(prTitle)
        titled == IF match # <<>>
                  THEN applyTitleType([intent EXCEPT
                                          !.type = ToLowerCase(match[1].type),
                                          !.scope = match[1].scope,
                                          !.description = match[1].description])
                  ELSE intent
    IN  applyLabels(titled, labels)

\* ============================================== posting collaborators
\* A comment body is the sequence of the lines of its text; a line is a record
\* of the values interpolated into it.  The newline that ends the message
\* line is left out.
BlankLine == [kind |-> "blank"]

SuggestionLines(comment) ==
    IF comment.suggestion # None
    THEN <<BlankLine, [kind |-> "suggestion", text |-> comment.suggestion]>>
    ELSE <<>>

confidenceEmoji(confidence) ==
    IF confidence >= 90 THEN "target"
    ELSE IF confidence >= 75 THEN "check"
    ELSE IF confidence >= 60 THEN "warning"
    ELSE "question"

\* GitHubService.formatCommentBody
GitHubFormatCommentBody(comment) ==
    LET emoji == IF comment.emoji # None THEN comment.emoji ELSE "blue_circle"
        category == IF comment.category # None THEN comment.category ELSE "SUGGESTION"
        confidence == IF comment.confidence # NoConfidence THEN comment.confidence ELSE 70
    IN  <<[kind |-> "header", emoji |-> emoji, category |-> category,
           confidenceEmoji |-> confidenceEmoji(confidence), confidence |-> confidence],
          BlankLine,
          [kind |-> "message", text |-> comment.message]>>
        \o SuggestionLines(comment)

\* the severityEmoji table of BitbucketService.formatCommentBody
severityEmoji ==
    [s \in {"critical", "warning", "info"} |->
        CASE s = "critical" -> "red_circle"
          [] s = "warning" -> "yellow_circle"
          [] OTHER -> "information"]

\* comment.severity.toUpperCase()
ToUpperCase(severity) ==
    CASE severity = "critical" -> "CRITICAL"
      [] severity = "high" -> "HIGH"
      [] severity = "medium" -> "MEDIUM"
      [] severity = "low" -> "LOW"
      [] severity = "warning" -> "WARNING"
      [] severity = "info" -> "INFO"
      [] OTHER -> severity

\* BitbucketService.formatCommentBody
BitbucketFormatCommentBody(comment) ==
    <<[kind |-> "severity",
       emoji |-> IF comment.severity \in DOMAIN severityEmoji
                 THEN severityEmoji[comment.severity] ELSE "",
       severity |-> ToUpperCase(comment.severity),
       text |-> comment.message]>>
    \o SuggestionLines(comment)

\* ============================================================== universes
\* issues and contexts handed to calculateConfidence
ScorerIssues ==
    [tags : SUBSET {"security", "production-only", "raw-sql"},
     ruleId : {None, "hardcoded-secrets", "no-console", "magic-numbers"},
     matchType : {None, "exact", "ast", "regex", "keyword"},
     pattern : {None, "p"},
     source : {"builtin", "custom"},
     language : {None, "javascript", "python"}]

ScorerContexts ==
    {[filename |-> f, language |-> l, isTestFile |-> t = "test",
      isConfigFile |-> t = "config", isMigrationFile |-> t = "migration",
      fileType |-> t] :
        f \in {"src/foo.js", "src/debug.js"}, l \in {"javascript", "python"},
        t \in {"production", "test", "config", "migration"}}

\* rule identifiers feedback is recorded for
FeedbackRuleIds == {"hardcoded-secrets", "no-console"}

\* rule identifiers feedback is recorded for after a review
ReviewFeedbackRuleIds == {"hardcoded-secrets"}

\* issues handed to categorize
CategorizerIssues ==
    [tags : SUBSET {"security", "crash", "performance", "style"},
     ruleId : {None, "sql-injection", "function-length", "no-console"},
     confidence : {NoConfidence, 40, 90}]

\* issues of the lists handed to categorizeMultiple
ListIssues ==
    [tags : {{"security"}, {"crash", "performance"}, {"performance"}, {"style"}},
     ruleId : {None},
     confidence : {NoConfidence, 40, 90}]

SeqsUpTo(S, n) == UNION {[1..k -> S] : k \in 0..n}

\* the files of a review: a file name and the lines of its content
Files == [filename : Paths, content : SeqsUpTo(Lines, MaxLines) \ {<<>>}]

\* the instruction files a review tool loads: the README example's language
\* section, the same under a heading that names one language, and a file
\* with a category rule, a code block and a tone
InstructionDocuments ==
    {<<"## Style (Language-Specific)", "### JavaScript/TypeScript",
       "- Use const by default, let when reassignment needed, avoid var">>,
     <<"## Style (Language-Specific)", "### JavaScript",
       "- Use const by default, let when reassignment needed, avoid var">>,
     <<"## Style (Language-Specific)", "- Flag commented-out code",
       "(fence)", "- Flag commented-out code", "(fence)",
       "## Review Tone", "Be constructive.">>}

\* the files of the pull request a review tool is invoked on
PullRequestFiles == SeqsUpTo(Files, 1)

\* the mode argument of a review tool: z.enum(['preview', 'direct']).optional()
ModeArguments == {None, "preview", "direct"}

\* process.env.REVIEW_MODE; None when the variable is not set
ReviewModeSettings == {None, "", "preview", "direct", "dry-run"}

\* config.review.mode: process.env.REVIEW_MODE || 'preview'
configReviewMode(setting) == IF setting \in {None, ""} THEN "preview" ELSE setting

\* the titles, bodies and labels handed to analyzePRIntent
Titles ==
    {"feat(api): add endpoint", "FIX: crash on start", "refactor: split parser",
     "perf: cache lookups", "docs: usage", "test: parser cases", "style: format",
     "chore: bump deps", "ci: cache", "feature: add endpoint", "Add endpoint", ""}

LabelNames ==
    {"bug", "WIP", "Draft PR", "security", "hotfix", "urgent", "breaking-change"}

Labels == [string : LabelNames] \cup [name : LabelNames]

\* the comments handed to formatCommentBody: comments as createComment builds
\* them, with confidences on both sides of each threshold
FormatComments ==
    {createComment(PathSrcJs, 1, "m", info.severity, suggestion, confidence,
                   info.category, info.emoji) :
        info \in {BugInfo([tags |-> {"security"}]), BugInfo([tags |-> {"crash"}]),
                  RefactorInfo([tags |-> {"performance"}]), SuggestionInfo},
        suggestion \in {None, "s"},
        confidence \in {0, 59, 60, 74, 75, 89, 90, 100}}

\* the changed lines handed to analyzeFile: entries of a parsed patch, whose
\* line numbers need not be positions of the content at hand
ChangedLineNumbers == {1, 7}
ChangedContents == {LineApiKey, LineConsole, LineVar}
ChangedLinesLists ==
    SeqsUpTo([line : ChangedLineNumbers, content : ChangedContents], MaxChanged)

\* the argument of new CodeAnalyzer(): {instructions} for a rule set, {} for
\* undefined
ConstructorArguments == {{i} : i \in InstructionSets} \cup {{}}

\* ================================================================ actions
\* no call of the scorer or the categorizer has been recorded yet
Unscored == scored = {} /\ categorized = {} /\ catOut = {}

\* scorer.recordFeedback(ruleId, wasCorrect), before or after the scorer has
\* scored an issue
RecordFeedback(ruleId, wasCorrect) ==
    /\ runs = 0
    /\ FeedbackCount(ruleHistory, DOMAIN ruleHistory) < MaxFeedback
    /\ ruleHistory' = recordFeedback(ruleHistory, ruleId, wasCorrect)
    /\ UNCHANGED <<scored, categorized, catIn, catOut,
                   review, comments, summary, firstRun, runs>>
    /\ UNCHANGED componentVars
    /\ UNCHANGED utilityVars

\* scorer.calculateConfidence(issue, context)
CalculateConfidence(issue, context) ==
    /\ Unscored
    /\ runs = 0
    /\ scored' = {[issue |-> issue, context |-> context,
                   score |-> calculateConfidence(ruleHistory, issue, context)]}
    /\ UNCHANGED <<ruleHistory, categorized, catIn, catOut,
                   review, comments, summary, firstRun, runs>>
    /\ UNCHANGED componentVars
    /\ UNCHANGED utilityVars

\* categorizer.categorize(issue)
Categorize(issue) ==
    /\ Unscored
    /\ categorized' = {[issue |-> issue, info |-> categorize(issue)]}
    /\ UNCHANGED <<ruleHistory, scored, catIn, catOut,
                   review, comments, summary, firstRun, runs>>
    /\ UNCHANGED componentVars
    /\ UNCHANGED utilityVars

\* categorizer.categorizeMultiple(issues)
CategorizeMultiple(issues) ==
    /\ Unscored
    /\ catIn' = issues
    /\ catOut' = {categorizeMultiple(issues)}
    /\ UNCHANGED <<ruleHistory, scored, categorized,
                   review, comments, summary, firstRun, runs>>
    /\ UNCHANGED componentVars
    /\ UNCHANGED utilityVars

\* The github_review_pr handler on files without a patch: a new CodeAnalyzer
\* (and with it a new ConfidenceScorer) analyzes the files and renders the
\* summary; comments and summary go to the caller or to submitReview as they are.
RunReview(instructions, files) ==
    LET history == ConfidenceScorerNew
        cs == analyzeFiles(history, instructions, files, EmptyMap)
        sm == generateSummary(instructions, cs)
    IN  /\ ruleHistory' = history
        /\ review' = {[instructions |-> instructions, files |-> files]}
        /\ comments' = cs
        /\ summary' = sm
        /\ firstRun' = IF runs = 0 THEN {[comments |-> cs, summary |-> sm]}
                       ELSE firstRun
        /\ runs' = runs + 1
        /\ UNCHANGED <<scored, categorized, catIn, catOut>>
        /\ UNCHANGED componentVars
        /\ UNCHANGED utilityVars

ReviewPR ==
    /\ runs = 0
    /\ \E instructions \in InstructionSets, files \in SeqsUpTo(Files, MaxFiles) :
          RunReview(instructions, files)

\* the same pull request is reviewed a second time
ReviewPRAgain ==
    /\ runs = 1
    /\ \E r \in review : RunReview(r.instructions, r.files)

\* analyzer.confidenceScorer.recordFeedback(ruleId, wasCorrect) on the
\* analyzer a finished review leaves behind
ReviewFeedback(ruleId, wasCorrect) ==
    /\ runs = 1
    /\ FeedbackCount(ruleHistory, DOMAIN ruleHistory) < MaxReviewFeedback
    /\ ruleHistory' = recordFeedback(ruleHistory, ruleId, wasCorrect)
    /\ UNCHANGED <<scored, categorized, catIn, catOut,
                   review, comments, summary, firstRun, runs>>
    /\ UNCHANGED componentVars
    /\ UNCHANGED utilityVars

\* new CodeAnalyzer(instructions): the constructor stores its argument and
\* builds a scorer, a categorizer and an intent analyzer; prData is omitted
NewCodeAnalyzer(instructions) ==
    /\ analyzer = {}
    /\ analyzer' = {[instructions |-> instructions,
                     ruleHistory |-> ConfidenceScorerNew]}
    /\ UNCHANGED <<analysis, thrown, config, invocation, formatted, prIntent>>
    /\ UNCHANGED pipelineVars
    /\ UNCHANGED utilityVars

\* analyzer.analyzeFile(file, changedLinesList); reading a property of an
\* undefined this.instructions in getRelevantInstructions is a TypeError
AnalyzeFile(file, changedLinesList) ==
    /\ analyzer # {}
    /\ analysis = {}
    /\ thrown = None
    /\ \E a \in analyzer :
          IF a.instructions = {}
          THEN /\ thrown' = "getRelevantInstructions"
               /\ UNCHANGED analysis
          ELSE /\ analysis' =
                    {[file |-> file,
                      changedLinesList |-> changedLinesList,
                      analyzed |-> linesToAnalyze(file, changedLinesList),
                      comments |-> analyzeFile(a.ruleHistory,
                                               CHOOSE i \in a.instructions : TRUE,
                                               file, changedLinesList)]}
               /\ UNCHANGED thrown
    /\ UNCHANGED <<analyzer, config, invocation, formatted, prIntent>>
    /\ UNCHANGED pipelineVars
    /\ UNCHANGED utilityVars

\* analyzer.generateSummary(comments) on the comments analyzed so far; reading
\* this.instructions.tone of an undefined this.instructions is a TypeError
GenerateSummary ==
    /\ analyzer # {}
    /\ thrown = None
    /\ summary = <<>>
    /\ \E a \in analyzer :
          IF a.instructions = {}
          THEN /\ thrown' = "generateSummary"
               /\ UNCHANGED summary
          ELSE /\ summary' = generateSummary(CHOOSE i \in a.instructions : TRUE,
                                 IF analysis = {} THEN <<>>
                                 ELSE (CHOOSE x \in analysis : TRUE).comments)
               /\ UNCHANGED thrown
    /\ UNCHANGED <<ruleHistory, scored, categorized, catIn, catOut,
                   review, comments, firstRun, runs>>
    /\ UNCHANGED <<analyzer, analysis, config, invocation, formatted, prIntent>>
    /\ UNCHANGED utilityVars

\* service.formatCommentBody(comment) of the GitHub or the Bitbucket service
FormatCommentBody(service, comment) ==
    /\ formatted = {}
    /\ formatted' = {[service |-> service, comment |-> comment,
                      body |-> IF service = "github"
                               THEN GitHubFormatCommentBody(comment)
                               ELSE BitbucketFormatCommentBody(comment)]}
    /\ UNCHANGED <<analyzer, analysis, thrown, config, invocation, prIntent>>
    /\ UNCHANGED pipelineVars
    /\ UNCHANGED utilityVars

\* The calls githubService.submitReview makes on the pull request: one
\* createReview with the summary as body and every comment formatted
GitHubSubmitReview(cs, body) ==
    <<[call |-> "createReview", event |-> "COMMENT", body |-> body,
       comments |-> [i \in DOMAIN cs |->
                        [path |-> cs[i].path, line |-> cs[i].line,
                         body |-> GitHubFormatCommentBody(cs[i])]]]>>

\* The calls bitbucketService.submitReview makes: addComment for the summary,
\* then addComment for each comment in order
BitbucketSubmitReview_summaryLast(cs, sm) ==
    [i \in DOMAIN cs |->
        [call |-> "addComment", content |-> BitbucketFormatCommentBody(cs[i]),
         inline |-> [path |-> cs[i].path, line |-> cs[i].line]]]
    \o (IF sm # <<>> THEN <<[call |-> "addComment", content |-> sm]>> ELSE <<>>)

BitbucketSubmitReview(cs, sm) ==
    (IF sm # <<>> THEN <<[call |-> "addComment", content |-> sm]>> ELSE <<>>)
    \o [i \in DOMAIN cs |->
            [call |-> "addComment", content |-> BitbucketFormatCommentBody(cs[i]),
             inline |-> [path |-> cs[i].path, line |-> cs[i].line]]]

\* ============================================================ utils: diffs
\* A line of a diff is its first character, line[0], and the rest,
\* line.substring(1); a hunk header also carries the numbers its text spells.
DiffPaths == {"src/foo.js", "src/app.py"}

DiffLine(type, content) ==
    [type |-> type, content |-> content, oldStart |-> 0, newStart |-> 0]
HunkHeader(oldStart, newStart) ==
    [type |-> "@", content |-> "@ -a,b +c,d @@",
     oldStart |-> oldStart, newStart |-> newStart]
GitHeader(path) == DiffLine("d", "iff --git a/" \o path \o " b/" \o path)
OldFileHeader(path) == DiffLine("-", "-- a/" \o path)
NewFileHeader(path) == DiffLine("+", "++ b/" \o path)

\* line.startsWith('diff --git'), line.startsWith('+++'), line.startsWith('@@')
StartsWithDiffGit(line) == \E p \in DiffPaths : line = GitHeader(p)
StartsWithPlus3(line) ==
    line.type = "+" /\ line.content \in {"++ b/" \o p : p \in DiffPaths} \cup {"++i;"}
StartsWithAtAt(line) == line.type = "@" /\ line.content = "@ -a,b +c,d @@"

\* line.match(/\+\+\+ b\/(.*)/)
PathMatch(line) == {p \in DiffPaths : line.content = "++ b/" \o p}

\* one round of the loop of parseDiff; currentHunk, when set, is the last
\* hunk of currentFile
parseDiffLine(st, line) ==
    IF StartsWithDiffGit(line) THEN
        [files |-> st.files \o (IF st.currentFile = {} THEN <<>>
                                ELSE <<CHOOSE f \in st.currentFile : TRUE>>),
         currentFile |-> {[path |-> "", hunks |-> <<>>]},
         currentHunk |-> FALSE]
    ELSE IF StartsWithPlus3(line) THEN
        IF PathMatch(line) # {} /\ st.currentFile # {}
        THEN [st EXCEPT !.currentFile =
                {[f EXCEPT !.path = CHOOSE p \in PathMatch(line) : TRUE] : f \in @}]
        ELSE st
    ELSE IF StartsWithAtAt(line) THEN
        IF st.currentFile # {}
        THEN [st EXCEPT
                !.currentFile =
                    {[f EXCEPT !.hunks = Append(@, [oldStart |-> line.oldStart,
                                                    newStart |-> line.newStart,
                                                    changes |-> <<>>])] : f \in @},
                !.currentHunk = TRUE]
        ELSE st
    ELSE IF st.currentHunk /\ line.type \in {"+", "-", " "} THEN
        [st EXCEPT !.currentFile =
            {[f EXCEPT !.hunks[Len(f.hunks)].changes =
                Append(@, [type |-> line.type, content |-> line.content,
                           lineNumber |-> f.hunks[Len(f.hunks)].newStart
                              + Cardinality({k \in DOMAIN @ : @[k].type # "-"})])] :
             f \in @}]
    ELSE st

RECURSIVE parseDiffLines(_, _)
parseDiffLines(st, lines) ==
    IF lines = <<>> THEN st
    ELSE parseDiffLines(parseDiffLine(st, Head(lines)), Tail(lines))

\* diffContent is the sequence of its lines, diffContent.split('\n')
parseDiff(diffContent) ==
    LET st == parseDiffLines([files |-> <<>>, currentFile |-> {},
                              currentHunk |-> FALSE], diffContent)
    IN  st.files \o (IF st.currentFile = {} THEN <<>>
                     ELSE <<CHOOSE f \in st.currentFile : TRUE>>)

\* the inner loop of getChangedLines over the changes of one hunk
RECURSIVE hunkChangedLines(_, _)
hunkChangedLines(changes, lineNumber) ==
    IF changes = <<>> THEN <<>>
    ELSE LET change == Head(changes)
         IN  (IF change.type = "+"
              THEN <<[line |-> lineNumber, content |-> change.content]>> ELSE <<>>)
             \o hunkChangedLines(Tail(changes),
                                  IF change.type # "-" THEN lineNumber + 1
                                  ELSE lineNumber)

\* changedLines[file.path] = [] and the pushes of the hunks of one file
fileChangedLines(file) ==
    Flatten([h \in DOMAIN file.hunks |->
                hunkChangedLines(file.hunks[h].changes, file.hunks[h].newStart)])

\* the object getChangedLines returns: a later file of the same path replaces
\* the list of an earlier one
getChangedLines(diffContent) ==
    LET files == parseDiff(diffContent)
    IN  [p \in {files[f].path : f \in DOMAIN files} |->
            LET last == CHOOSE f \in DOMAIN files :
                            /\ files[f].path = p
                            /\ \A g \in DOMAIN files : files[g].path = p => g <= f
            IN  fileChangedLines(files[last])]

\* changedLines as github_review_pr builds it: for every file with a
\* non-empty patch, getChangedLines(file.patch)[file.filename] || []
patchChangedLines(files) ==
    LET patched == {f \in DOMAIN files :
                      "patch" \in DOMAIN files[f] /\ files[f].patch # <<>>}
    IN  [name \in {files[f].filename : f \in patched} |->
            LET last == CHOOSE f \in patched :
                            /\ files[f].filename = name
                            /\ \A g \in patched : files[g].filename = name => g <= f
                changed == getChangedLines(files[last].patch)
            IN  IF name \in DOMAIN changed THEN changed[name] ELSE <<>>]

\* The handler of github_review_pr or bitbucket_review_pr: it loads the
\* instruction file, takes the changed lines from the patches of the files
\* (github_review_pr) or from the raw diff, which reports no changed line
\* (bitbucket_review_pr), analyzes the files with a new CodeAnalyzer, renders
\* the summary, and returns the feedback or submits the review.
ReviewTool(tool, mode, document, files) ==
    LET reviewMode == IF mode # None THEN mode ELSE config.review.mode
        instructions == parseMarkdown(document)
        changedLines == IF tool = "github_review_pr" THEN patchChangedLines(files)
                        ELSE EmptyMap
        cs == analyzeFiles(ConfidenceScorerNew, instructions, files, changedLines)
        sm == generateSummary(instructions, cs)
    IN  /\ invocation = {}
        /\ invocation' =
              {[tool |-> tool, mode |-> mode, document |-> document, files |-> files,
                comments |-> cs,
                result |-> IF reviewMode = "preview"
                           THEN [mode |-> "preview", summary |-> sm,
                                 total |-> Len(cs)]
                           ELSE [mode |-> "direct", summary |-> sm,
                                 total |-> Len(cs)],
                posted |-> IF reviewMode = "preview" THEN <<>>
                           ELSE IF tool = "github_review_pr"
                           THEN GitHubSubmitReview(cs, sm)
                           ELSE BitbucketSubmitReview(cs, sm)]}
        /\ UNCHANGED <<analyzer, analysis, thrown, config, formatted, prIntent>>
        /\ UNCHANGED pipelineVars
        /\ UNCHANGED utilityVars

\* intentAnalyzer.analyzePRIntent(prTitle, prBody, labels); calling
\* toLowerCase on an undefined label name is a TypeError
AnalyzePRIntent(prTitle, prBody, labels) ==
    /\ prIntent = {}
    /\ thrown = None
    /\ IF \E i \in DOMAIN labels : labelName(labels[i]) = None
       THEN /\ thrown' = "analyzePRIntent"
            /\ UNCHANGED prIntent
       ELSE /\ prIntent' = {[prTitle |-> prTitle, prBody |-> prBody, labels |-> labels,
                           result |-> analyzePRIntent(prTitle, prBody, labels)]}
            /\ UNCHANGED thrown
    /\ UNCHANGED <<analyzer, analysis, config, invocation, formatted>>
    /\ UNCHANGED pipelineVars
    /\ UNCHANGED utilityVars

\* ========================================================= specifications
\* new InstructionsManager(): an empty cache and no default parser (0).  Each
\* loadInstructions call creates a parser, known by the number of the call;
\* parserInstructions is its instructions property, empty while it is null.
ManagerNew ==
    [cache |-> EmptyMap, defaultParser |-> 0,
     parserInstructions |-> [c \in 1..MaxLoads |-> {}],
     calls |-> <<>>, trace |-> <<>>]

\* no instruction set has been given to getRelevantInstructions yet
RelevantNew == [instructions |-> {}, calls |-> <<>>]

\* no submitReview call has been made; the pull request has no comments
SubmissionIdle ==
    [pc |-> "idle", comments |-> <<>>, summary |-> <<>>, next |-> 0,
     attempt |-> 0, inFlight |-> {}, createdComments |-> <<>>,
     posted |-> <<>>, result |-> {}]

\* no retryWithBackoff call has been made
RetryIdle ==
    [pc |-> "idle", maxRetries |-> 0, initialDelay |-> 0,
     backoffMultiplier |-> 0, onRetry |-> FALSE, attempt |-> 0,
     delay |-> 0, lastError |-> {}, calls |-> <<>>,
     onRetryCalls |-> <<>>, sleeps |-> <<>>, value |-> {}]

UtilityInit ==
    /\ historyScore = {}
    /\ fileIntents = {}
    /\ retry = RetryIdle
    /\ parsed = {}
    /\ diffed = {}
    /\ manager = ManagerNew
    /\ relevantCalls = RelevantNew
    /\ submission = SubmissionIdle

Init ==
    /\ ruleHistory = EmptyMap
    /\ scored = {}
    /\ categorized = {}
    /\ catIn = <<>>
    /\ catOut = {}
    /\ review = {}
    /\ comments = <<>>
    /\ summary = <<>>
    /\ firstRun = {}
    /\ runs = 0
    /\ analyzer = {}
    /\ analysis = {}
    /\ thrown = None
    /\ config = [review |-> [mode |-> "preview"]]
    /\ invocation = {}
    /\ formatted = {}
    /\ prIntent = {}
    /\ UtilityInit

\* review runs
Next ==
    \/ ReviewPR
    \/ ReviewPRAgain
    \/ \E ruleId \in ReviewFeedbackRuleIds, wasCorrect \in BOOLEAN :
          ReviewFeedback(ruleId, wasCorrect)

Spec == Init /\ [][Next]_vars

\* a ConfidenceScorer on its own
ScorerNext ==
    \/ \E ruleId \in FeedbackRuleIds, wasCorrect \in BOOLEAN :
          RecordFeedback(ruleId, wasCorrect)
    \/ /\ Unscored
       /\ \E issue \in ScorerIssues, context \in ScorerContexts :
             CalculateConfidence(issue, context)

ScorerSpec == Init /\ [][ScorerNext]_vars

\* an IssueCategorizer on its own
CategorizerNext ==
    \/ /\ Unscored
       /\ \E issue \in CategorizerIssues : Categorize(issue)
    \/ /\ Unscored
       /\ \E issues \in SeqsUpTo(ListIssues, MaxIssues) : CategorizeMultiple(issues)

CategorizerSpec == Init /\ [][CategorizerNext]_vars

\* a CodeAnalyzer on its own
AnalyzerNext ==
    \/ /\ analyzer = {}
       /\ \E instructions \in ConstructorArguments : NewCodeAnalyzer(instructions)
    \/ /\ analyzer # {} /\ analysis = {} /\ thrown = None
       /\ \E file \in Files, changedLinesList \in ChangedLinesLists :
             AnalyzeFile(file, changedLinesList)
    \/ GenerateSummary

AnalyzerSpec == Init /\ [][AnalyzerNext]_vars

\* the posting services on their own
ServiceNext ==
    /\ formatted = {}
    /\ \E service \in {"github", "bitbucket"}, comment \in FormatComments :
          FormatCommentBody(service, comment)

ServiceSpec == Init /\ [][ServiceNext]_vars

\* the review tools of a server process; config is read from the environment
\* when the process starts
ToolInit ==
    /\ \E setting \in ReviewModeSettings :
          config = [review |-> [mode |-> configReviewMode(setting)]]
    /\ ruleHistory = EmptyMap
    /\ scored = {}
    /\ categorized = {}
    /\ catIn = <<>>
    /\ catOut = {}
    /\ review = {}
    /\ comments = <<>>
    /\ summary = <<>>
    /\ firstRun = {}
    /\ runs = 0
    /\ analyzer = {}
    /\ analysis = {}
    /\ thrown = None
    /\ invocation = {}
    /\ formatted = {}
    /\ prIntent = {}
    /\ UtilityInit

\* pull requests of one file whose patch GitHub reports: the hunks alone, as
\* pulls.listFiles gives them, or a whole diff of the file; a patch that adds
\* the second line of the file or one that only removes a line
PatchedPullRequests ==
    {<<[filename |-> "src/foo.js", content |-> <<first, LineConsole>>,
        patch |-> header
                  \o <<HunkHeader(1, 1), DiffLine(" ", first)>>
                  \o (IF adds THEN <<DiffLine("+", LineConsole)>>
                      ELSE <<DiffLine("-", LineVar), DiffLine(" ", LineConsole)>>)]>> :
        first \in {LineApiKey, LineVar},
        header \in {<<>>, <<GitHeader("src/foo.js"), OldFileHeader("src/foo.js"),
                            NewFileHeader("src/foo.js")>>},
        adds \in BOOLEAN}

ToolNext ==
    /\ invocation = {}
    /\ \/ \E tool \in {"github_review_pr", "bitbucket_review_pr"},
             mode \in ModeArguments, document \in InstructionDocuments,
             files \in PullRequestFiles :
             ReviewTool(tool, mode, document, files)
       \/ \E mode \in ModeArguments, document \in InstructionDocuments,
             files \in PatchedPullRequests :
             ReviewTool("github_review_pr", mode, document, files)

ToolSpec == ToolInit /\ [][ToolNext]_vars

\* an IntentAnalyzer on its own
IntentNext ==
    /\ prIntent = {} /\ thrown = None
    /\ \E prTitle \in Titles, prBody \in {"", "Closes #12"},
          labels \in SeqsUpTo(Labels, MaxLabels) :
          AnalyzePRIntent(prTitle, prBody, labels)

IntentSpec == Init /\ [][IntentNext]_vars

\* ------------------------------------------- ConfidenceScorer.scoreHistory
\* the ruleIds feedback is recorded for and the ruleIds whose history is read
\* (None: an issue without a ruleId)
HistoryFeedbackIds == {"hardcoded-secrets", "no-console", "magic-numbers"}
HistoryRuleIds == HistoryFeedbackIds \cup {None, "sql-injection", "no-var"}

\* scorer.recordFeedback(ruleId, wasCorrect) on a scorer whose history
\* sub-score is read
HistoryFeedback(ruleId, wasCorrect) ==
    /\ FeedbackCount(ruleHistory, DOMAIN ruleHistory) < MaxHistory
    /\ ruleHistory' = recordFeedback(ruleHistory, ruleId, wasCorrect)
    /\ UNCHANGED <<scored, categorized, catIn, catOut,
                   review, comments, summary, firstRun, runs>>
    /\ UNCHANGED componentVars
    /\ UNCHANGED utilityVars

\* scorer.scoreHistory(ruleId)
ScoreHistory(ruleId) ==
    /\ historyScore' = {[ruleId |-> ruleId, history |-> ruleHistory,
                         score |-> scoreHistory(ruleHistory, ruleId)]}
    /\ UNCHANGED pipelineVars
    /\ UNCHANGED componentVars
    /\ UNCHANGED <<fileIntents, retry, parsed, diffed, manager, relevantCalls, submission>>

HistoryNext ==
    \/ \E ruleId \in HistoryFeedbackIds, wasCorrect \in BOOLEAN :
          HistoryFeedback(ruleId, wasCorrect)
    \/ \E ruleId \in HistoryRuleIds : ScoreHistory(ruleId)

HistorySpec == Init /\ [][HistoryNext]_vars

\* ---------------------------------------- IntentAnalyzer.analyzeFileIntent
FileContents == {"", "// DEBUG trace", "const x = 1"}

\* intentAnalyzer.analyzeFileIntent(filename, content)
AnalyzeFileIntent(filename, content) ==
    /\ Cardinality(fileIntents) < MaxIntentCalls
    /\ fileIntents' = fileIntents \cup
          {[filename |-> filename, content |-> content,
            type |-> analyzeFileIntent(filename).type,
            purpose |-> detectFilePurpose(filename, content)]}
    /\ UNCHANGED pipelineVars
    /\ UNCHANGED componentVars
    /\ UNCHANGED <<historyScore, retry, parsed, diffed, manager, relevantCalls, submission>>

FileIntentNext ==
    \E filename \in IntentPaths, content \in FileContents :
        AnalyzeFileIntent(filename, content)

FileIntentSpec == Init /\ [][FileIntentNext]_vars

\* ------------------------------------------------------ retryWithBackoff
\* what one call of fn settles to: a value, or an error with a status
\* (NoStatus: an error without one); the attempt is part of the outcome so
\* that the errors of two attempts can be told apart
NoStatus == 0
FnResults == {"data"}
ErrorStatuses == {NoStatus, 500, 401, 403, 404}
Fulfilled(result, attempt) ==
    [ok |-> TRUE, result |-> result, status |-> NoStatus, attempt |-> attempt]
Rejected(status, attempt) ==
    [ok |-> FALSE, result |-> "", status |-> status, attempt |-> attempt]

\* error.status === 401 || error.status === 403 || error.status === 404
DontRetry_only401(error) == error.status = 401

DontRetry(error) == error.status \in {401, 403, 404}

\* retryWithBackoff(fn, options): destructuring of the options and the
\* initialisation of delay and attempt
RetryWithBackoff(maxRetries, initialDelay, backoffMultiplier, onRetry) ==
    /\ retry.pc = "idle"
    /\ retry' = [retry EXCEPT !.pc = "call", !.maxRetries = maxRetries,
                              !.initialDelay = initialDelay,
                              !.backoffMultiplier = backoffMultiplier,
                              !.onRetry = onRetry, !.attempt = 0,
                              !.delay = initialDelay]
    /\ UNCHANGED pipelineVars
    /\ UNCHANGED componentVars
    /\ UNCHANGED <<historyScore, fileIntents, parsed, diffed, manager, relevantCalls, submission>>

\* return await fn(): the call of this attempt fulfils
FnFulfils(result) ==
    /\ retry.pc = "call"
    /\ retry' = [retry EXCEPT
                   !.pc = "returned",
                   !.value = {Fulfilled(result, retry.attempt)},
                   !.calls = Append(@, Fulfilled(result, retry.attempt))]
    /\ UNCHANGED pipelineVars
    /\ UNCHANGED componentVars
    /\ UNCHANGED <<historyScore, fileIntents, parsed, diffed, manager, relevantCalls, submission>>

\* the call of this attempt rejects: the catch block up to the throw, to the
\* sleep, or through the end of the loop to the final throw
FnRejects(status) ==
    /\ retry.pc = "call"
    /\ LET error == Rejected(status, retry.attempt)
           called == [retry EXCEPT !.lastError = {error},
                                   !.calls = Append(@, error)]
       IN  retry' =
             IF DontRetry(error)
             THEN [called EXCEPT !.pc = "thrown", !.value = {error}]
             ELSE IF retry.attempt < retry.maxRetries
             THEN [called EXCEPT
                     !.pc = "sleep",
                     !.onRetryCalls =
                        IF retry.onRetry
                        THEN Append(@, [attempt |-> retry.attempt + 1,
                                        error |-> error, delay |-> retry.delay])
                        ELSE @]
             ELSE [called EXCEPT !.pc = "thrown", !.value = called.lastError,
                                 !.attempt = @ + 1]
    /\ UNCHANGED pipelineVars
    /\ UNCHANGED componentVars
    /\ UNCHANGED <<historyScore, fileIntents, parsed, diffed, manager, relevantCalls, submission>>

\* await sleep(delay) resolves; delay *= backoffMultiplier; attempt++
SleepElapses ==
    /\ retry.pc = "sleep"
    /\ retry' = [retry EXCEPT !.pc = "call",
                              !.sleeps = Append(@, retry.delay),
                              !.delay = @ * retry.backoffMultiplier,
                              !.attempt = @ + 1]
    /\ UNCHANGED pipelineVars
    /\ UNCHANGED componentVars
    /\ UNCHANGED <<historyScore, fileIntents, parsed, diffed, manager, relevantCalls, submission>>

FnSettles ==
    \/ \E result \in FnResults : FnFulfils(result)
    \/ \E status \in ErrorStatuses : FnRejects(status)

RetryNext ==
    \/ \E maxRetries \in 0..MaxRetries, initialDelay \in {1000, 250},
          backoffMultiplier \in {2, 3}, onRetry \in BOOLEAN :
          RetryWithBackoff(maxRetries, initialDelay, backoffMultiplier, onRetry)
    \/ FnSettles
    \/ SleepElapses

\* every promise fn returns settles and every timer fires
RetrySpec ==
    Init /\ [][RetryNext]_vars /\ WF_vars(FnSettles) /\ WF_vars(SleepElapses)

\* ------------------------------------------ InstructionsParser.parseMarkdown
DocumentLines ==
    {"## Style (Language-Specific)", "## Review Tone", "## Constructor",
     "### JavaScript", "- Flag commented-out code",
     "- Use const by default, let when reassignment needed, avoid var",
     "Be constructive.", "(fence)"}

\* parser.parseMarkdown(content)
ParseMarkdown(content) ==
    /\ parsed = {}
    /\ LET st == parseMarkdownLoop(content)
       IN  parsed' = {[content |-> content, threw |-> st.threw,
                       instructions |-> st.instructions]}
    /\ UNCHANGED pipelineVars
    /\ UNCHANGED componentVars
    /\ UNCHANGED <<historyScore, fileIntents, retry, diffed, manager, relevantCalls, submission>>

ParserNext ==
    /\ parsed = {}
    /\ \E content \in SeqsUpTo(DocumentLines, MaxDocLines) : ParseMarkdown(content)

ParserSpec == Init /\ [][ParserNext]_vars

\* --------------------------------------------------------- getChangedLines
\* Unified diffs, as the files, hunks and changes they describe.  The added
\* line "++i;" is the diff line "+++i;".
HunkChanges ==
    {DiffLine("+", LineConsole), DiffLine("-", LineVar),
     DiffLine(" ", LineApiKey), DiffLine("+", "++i;")}

UnifiedDiffs ==
    {<<[path |-> "src/foo.js",
        hunks |-> <<[oldStart |-> 1, newStart |-> 10, changes |-> changes]>>
                  \o (IF second
                      THEN <<[oldStart |-> 8, newStart |-> 20,
                              changes |-> <<DiffLine("-", LineVar),
                                            DiffLine("+", LineConsole)>>]>>
                      ELSE <<>>)]>>
     \o (IF other
         THEN <<[path |-> "src/app.py",
                 hunks |-> <<[oldStart |-> 3, newStart |-> 3,
                              changes |-> <<DiffLine(" ", LineVar),
                                            DiffLine("+", LineApiKey)>>]>>]>>
         ELSE <<>>) :
        changes \in SeqsUpTo(HunkChanges, MaxHunkLines) \ {<<>>},
        second \in BOOLEAN, other \in BOOLEAN}

\* the text of a diff, line by line
DiffText(diff) ==
    Flatten([f \in DOMAIN diff |->
        <<GitHeader(diff[f].path), OldFileHeader(diff[f].path),
          NewFileHeader(diff[f].path)>>
        \o Flatten([h \in DOMAIN diff[f].hunks |->
              <<HunkHeader(diff[f].hunks[h].oldStart, diff[f].hunks[h].newStart)>>
              \o diff[f].hunks[h].changes])])

\* getChangedLines(diffContent) on the text of a diff
GetChangedLines(diff) ==
    /\ diffed = {}
    /\ diffed' = {[diff |-> diff,
                   files |-> parseDiff(DiffText(diff)),
                   changedLines |-> getChangedLines(DiffText(diff))]}
    /\ UNCHANGED pipelineVars
    /\ UNCHANGED componentVars
    /\ UNCHANGED <<historyScore, fileIntents, retry, parsed, manager, relevantCalls, submission>>

DiffNext ==
    /\ diffed = {}
    /\ \E diff \in UnifiedDiffs : GetChangedLines(diff)

DiffSpec == Init /\ [][DiffNext]_vars

\* ------------------------------------------------------ InstructionsManager
\* The instruction file a review names, and what fs.readFile settles to for
\* it: its content in one of two versions, or an error code.  The parsed
\* object remembers the parser that made it, so that two objects of equal
\* content can be told apart.
CustomPath == ".reviewrc.md"
DefaultPath == "default-instructions.md"
CustomReadOutcomes == {"v1", "v2", "ENOENT", "EACCES"}
DefaultReadOutcomes == {"default", "EIO"}

Parsed(path, content, parser) == [path |-> path, content |-> content, by |-> parser]

\* parser.getAllInstructions(): this.instructions || {}
EmptyObject == [path |-> "", content |-> "", by |-> 0]
getAllInstructions(instructions) ==
    IF instructions = {} THEN EmptyObject ELSE CHOOSE i \in instructions : TRUE

\* this.cache.set(filePath, instructions)
CacheSet(cache, filePath, instructions) ==
    [p \in DOMAIN cache \cup {filePath} |->
        IF p = filePath THEN instructions ELSE cache[p]]

Event(kind, call, path, value) ==
    [kind |-> kind, call |-> call, path |-> path, value |-> value]

Returned(m, call, value) ==
    [m EXCEPT !.calls[call].pc = "resolved", !.calls[call].result = {value},
              !.trace = Append(@, Event("resolve", call, m.calls[call].filePath,
                                        {value}))]

Threw(m, call) ==
    [m EXCEPT !.calls[call].pc = "rejected",
              !.trace = Append(@, Event("reject", call, m.calls[call].filePath, {}))]

\* manager.loadInstructions(filePath) up to its first await, or to its return
\* when the cache or an installed default parser answers
LoadInstructions(filePath) ==
    /\ Len(manager.calls) < MaxLoads
    /\ LET call == Len(manager.calls) + 1
           started(pc) ==
               [manager EXCEPT
                   !.calls = Append(@, [filePath |-> filePath, pc |-> pc, result |-> {}]),
                   !.trace = Append(@, Event("call", call, filePath, {}))]
           reading(m, path) ==
               [m EXCEPT !.trace = Append(@, Event("readFile", call, path, {}))]
       IN  manager' =
             IF filePath # None /\ filePath \in DOMAIN manager.cache
             THEN Returned(started("cached"), call, manager.cache[filePath])
             ELSE IF filePath # None
             THEN reading(started("reading"), filePath)
             ELSE IF manager.defaultParser = 0
             THEN reading([started("readingDefault") EXCEPT !.defaultParser = call],
                          DefaultPath)
             ELSE Returned(started("default"), call,
                           getAllInstructions(
                               manager.parserInstructions[manager.defaultParser]))
    /\ UNCHANGED pipelineVars
    /\ UNCHANGED componentVars
    /\ UNCHANGED <<historyScore, fileIntents, retry, parsed, diffed, relevantCalls, submission>>

\* fs.readFile of the custom file settles: parseMarkdown and cache.set, or
\* the fallback to the default file on ENOENT, or the rethrown error
CustomReadSettles(call, outcome) ==
    /\ call \in DOMAIN manager.calls
    /\ manager.calls[call].pc = "reading"
    /\ LET path == manager.calls[call].filePath
           instructions == Parsed(path, outcome, call)
       IN  manager' =
             IF outcome \in {"v1", "v2"}
             THEN Returned([manager EXCEPT
                              !.parserInstructions[call] = {instructions},
                              !.cache = CacheSet(@, path, instructions)],
                           call, instructions)
             ELSE IF outcome = "ENOENT"
             THEN [manager EXCEPT
                     !.calls[call].pc = "readingFallback",
                     !.trace = Append(@, Event("readFile", call, DefaultPath, {}))]
             ELSE Threw(manager, call)
    /\ UNCHANGED pipelineVars
    /\ UNCHANGED componentVars
    /\ UNCHANGED <<historyScore, fileIntents, retry, parsed, diffed, relevantCalls, submission>>

\* fs.readFile of the default file settles, in loadDefaultInstructions called
\* for the fallback of a custom load (the result is cached under the path) or
\* for a load without a path (the result is read from this.defaultParser as it
\* is then; reading it from null is a TypeError)
DefaultReadSettles(call, outcome) ==
    /\ call \in DOMAIN manager.calls
    /\ manager.calls[call].pc \in {"readingFallback", "readingDefault"}
    /\ LET path == manager.calls[call].filePath
           instructions == Parsed(DefaultPath, outcome, call)
           loaded == [manager EXCEPT !.parserInstructions[call] = {instructions}]
       IN  manager' =
             IF outcome # "default" THEN Threw(manager, call)
             ELSE IF manager.calls[call].pc = "readingFallback"
             THEN Returned([loaded EXCEPT !.cache = CacheSet(@, path, instructions)],
                           call, instructions)
             ELSE IF loaded.defaultParser = 0 THEN Threw(loaded, call)
             ELSE Returned(loaded, call,
                           getAllInstructions(
                               loaded.parserInstructions[loaded.defaultParser]))
    /\ UNCHANGED pipelineVars
    /\ UNCHANGED componentVars
    /\ UNCHANGED <<historyScore, fileIntents, retry, parsed, diffed, relevantCalls, submission>>

\* manager.clearCache()
ClearCache ==
    /\ Cardinality({k \in DOMAIN manager.trace : manager.trace[k].kind = "clear"})
          < MaxClears
    /\ manager' = [manager EXCEPT
                      !.cache = EmptyMap, !.defaultParser = 0,
                      !.trace = Append(@, Event("clear", 0, None, {}))]
    /\ UNCHANGED pipelineVars
    /\ UNCHANGED componentVars
    /\ UNCHANGED <<historyScore, fileIntents, retry, parsed, diffed, relevantCalls, submission>>

ManagerNext ==
    \/ \E filePath \in {None, CustomPath} : LoadInstructions(filePath)
    \/ \E call \in 1..MaxLoads, outcome \in CustomReadOutcomes :
          CustomReadSettles(call, outcome)
    \/ \E call \in 1..MaxLoads, outcome \in DefaultReadOutcomes :
          DefaultReadSettles(call, outcome)
    \/ ClearCache

ManagerSpec == Init /\ [][ManagerNext]_vars

\* ------------------------------------------- manager.getRelevantInstructions
MaxRelevantCalls == 2

\* Instruction sets as parseMarkdown builds them: categories in the order of
\* their headers, language buckets by their lower-case key
RelevantCategories ==
    {<<>>,
     <<[name |-> "security", rules |-> <<RuleGuideline>>]>>,
     <<[name |-> "security", rules |-> <<RuleGuideline>>],
       [name |-> "style", rules |-> <<RuleConsole>>]>>}

LanguageBuckets(key, rules, groupRules) ==
    [k \in {key, "javascript/typescript"} |->
        IF k = key THEN rules ELSE groupRules]

RelevantLanguageBuckets ==
    {EmptyMap,
     [k \in {"javascript"} |-> <<RuleVar>>],
     [k \in {"javascript/typescript"} |-> <<RuleTemplate>>],
     LanguageBuckets("javascript", <<RuleVar>>, <<RuleTemplate>>),
     LanguageBuckets("javascript", <<>>, <<RuleTemplate>>),
     LanguageBuckets("python", <<RulePrint>>, <<RuleTemplate>>)}

RelevantInstructionSets ==
    {[categories |-> c, languageSpecific |-> l, tone |-> t] :
        c \in RelevantCategories, l \in RelevantLanguageBuckets,
        t \in {"", "Be kind."}}

\* language arguments; "" stands for a call without a language
RelevantLanguages == {"", "JavaScript", "typescript", "python"}

\* categories arguments; <<>> stands for null and for an empty array
RelevantCategoryLists == {<<>>, <<"security">>, <<"style", "security">>}

\* instructions.categories[category.toLowerCase()] || []
CategoryInstructions(instructions, category) ==
    LET named == {i \in DOMAIN instructions.categories :
                     instructions.categories[i].name = ToLowerCase(category)}
    IN  IF named = {} THEN <<>>
        ELSE instructions.categories[CHOOSE i \in named : TRUE].rules

\* instructions.languageSpecific[key] || []
LanguageInstructions(instructions, key) ==
    IF key \in DOMAIN instructions.languageSpecific
    THEN instructions.languageSpecific[key] ELSE <<>>

\* The value getRelevantInstructions returns and the instructions after the
\* call. relevant.languageSpecific is the bucket of the language itself when
\* the bucket exists, so the push of the javascript/typescript rules appends
\* to that bucket of the instructions.
managerGetRelevantInstructions(instructions, language, categories) ==
    LET general ==
            IF categories # <<>>
            THEN Flatten([i \in DOMAIN categories |->
                            CategoryInstructions(instructions, categories[i])])
            ELSE Flatten([i \in DOMAIN instructions.categories |->
                            instructions.categories[i].rules])
        languageLower == ToLowerCase(language)
        isJs == languageLower \in {"javascript", "typescript"}
        languageSpecific ==
            IF language = "" THEN <<>>
            ELSE LanguageInstructions(instructions, languageLower)
                    \o (IF isJs
                        THEN LanguageInstructions(instructions, "javascript/typescript")
                        ELSE <<>>)
        aliased == language # "" /\ isJs
                      /\ languageLower \in DOMAIN instructions.languageSpecific
    IN  [relevant |-> [general |-> general, languageSpecific |-> languageSpecific,
                       tone |-> instructions.tone],
         instructions |->
            IF aliased
            THEN [instructions EXCEPT !.languageSpecific[languageLower] =
                                            languageSpecific]
            ELSE instructions]

\* manager.getRelevantInstructions(instructions, language, categories), on
\* the instruction set of the earlier calls when there was one
GetRelevantInstructions(instructions, language, categories) ==
    /\ Len(relevantCalls.calls) < MaxRelevantCalls
    /\ relevantCalls.instructions \in {{}, {instructions}}
    /\ LET call == managerGetRelevantInstructions(instructions, language, categories)
       IN  relevantCalls' =
             [instructions |-> {call.instructions},
              calls |-> Append(relevantCalls.calls,
                               [language |-> language, categories |-> categories,
                                given |-> instructions,
                                result |-> call.relevant])]
    /\ UNCHANGED pipelineVars
    /\ UNCHANGED componentVars
    /\ UNCHANGED <<historyScore, fileIntents, retry, parsed, diffed, manager,
                   submission>>

RelevantNext ==
    \/ /\ relevantCalls.instructions = {}
       /\ \E instructions \in RelevantInstructionSets,
             language \in RelevantLanguages, categories \in RelevantCategoryLists :
             GetRelevantInstructions(instructions, language, categories)
    \/ \E instructions \in relevantCalls.instructions,
          language \in RelevantLanguages, categories \in RelevantCategoryLists :
          GetRelevantInstructions(instructions, language, categories)

RelevantSpec == Init /\ [][RelevantNext]_vars

\* ------------------------------------------ bitbucketService.submitReview
MaxSubmitComments == 2

\* config.rateLimit.maxRetries, the only option of config.rateLimit that
\* retryWithBackoff reads under the name it is defined with
RateLimitMaxRetries == 3

SubmitComments ==
    {createComment(PathSrcJs, line, "m", info.severity, None, 90,
                   info.category, info.emoji) :
        line \in {1, 2},
        info \in {BugInfo([tags |-> {"security"}]), SuggestionInfo}}

\* summaries as lines; <<>> is the empty string
SubmitSummaries == {<<>>, <<"## Code Review Summary">>}

\* the addComment calls of submitReview(comments, summary), in program order
PostsOf(s) == BitbucketSubmitReview(s.comments, s.summary)

\* client.post of the addComment call at position next is sent
Sent(s, next) == [s EXCEPT !.next = next, !.attempt = 0, !.inFlight = {next}]

\* submitReview(workspace, repo, pullRequestId, comments, summary) up to its
\* first await, or to its return when there is nothing to post
SubmitReview(cs, sm) ==
    /\ submission.pc = "idle"
    /\ LET called == [submission EXCEPT !.comments = cs, !.summary = sm]
       IN  submission' =
             IF PostsOf(called) = <<>>
             THEN [called EXCEPT
                     !.pc = "returned",
                     !.result = {[success |-> TRUE, comment_count |-> 0,
                                  comment_ids |-> <<>>]}]
             ELSE [Sent(called, 1) EXCEPT !.pc = "posting"]
    /\ UNCHANGED pipelineVars
    /\ UNCHANGED componentVars
    /\ UNCHANGED <<historyScore, fileIntents, retry, parsed, diffed, manager,
                   relevantCalls>>

\* the post in flight fulfils: the comment is on the pull request, addComment
\* returns its id, submitReview pushes it and goes on to the next comment or
\* returns
AddCommentFulfils ==
    /\ submission.pc = "posting"
    /\ LET posts == PostsOf(submission)
           id == Len(submission.posted) + 1
           created == [submission EXCEPT
                         !.posted = Append(@, posts[submission.next]),
                         !.createdComments = Append(@, id),
                         !.inFlight = {}]
       IN  submission' =
             IF submission.next < Len(posts)
             THEN Sent(created, submission.next + 1)
             ELSE [created EXCEPT
                     !.pc = "returned",
                     !.result = {[success |-> TRUE,
                                  comment_count |-> Len(created.createdComments),
                                  comment_ids |-> created.createdComments]}]
    /\ UNCHANGED pipelineVars
    /\ UNCHANGED componentVars
    /\ UNCHANGED <<historyScore, fileIntents, retry, parsed, diffed, manager,
                   relevantCalls>>

\* the post in flight rejects: retryWithBackoff sends it again after its
\* sleep, or throws; then addComment throws and submitReview's catch throws
AddCommentRejects(status) ==
    /\ submission.pc = "posting"
    /\ submission' =
          IF DontRetry(Rejected(status, submission.attempt))
             \/ submission.attempt >= RateLimitMaxRetries
          THEN [submission EXCEPT !.pc = "thrown", !.inFlight = {}]
          ELSE [submission EXCEPT !.attempt = @ + 1]
    /\ UNCHANGED pipelineVars
    /\ UNCHANGED componentVars
    /\ UNCHANGED <<historyScore, fileIntents, retry, parsed, diffed, manager,
                   relevantCalls>>

SubmitNext ==
    \/ /\ submission.pc = "idle"
       /\ \E cs \in SeqsUpTo(SubmitComments, MaxSubmitComments),
             sm \in SubmitSummaries : SubmitReview(cs, sm)
    \/ AddCommentFulfils
    \/ \E status \in ErrorStatuses : AddCommentRejects(status)

SubmitSpec == Init /\ [][SubmitNext]_vars

\* ================================================================= claims
\* C1: whatever feedback the scorer has recorded, calculateConfidence
\* returns an integer between 0 and 100 for every issue and context; it is
\* never NaN.
C1_ConfidenceInRange == \A c \in scored : c.score \in 0..100

\* a rule whose recorded history is all false positives has been scored
C1_ScoredWithHistory ==
    \E c \in scored :
        /\ c.issue.ruleId \in DOMAIN ruleHistory
        /\ ruleHistory[c.issue.ruleId].correct = 0
        /\ ruleHistory[c.issue.ruleId].falsePositive = MaxFeedback

CommentsOfCategory(cat) == {i \in DOMAIN comments : comments[i].category = cat}
SummaryLines(kind) == {i \in DOMAIN summary : summary[i].kind = kind}

\* C2: the summary of a review has a count line for a category exactly when
\* the review has findings of that category, the line carries their number,
\* and the critical callout carries the number of findings of severity
\* critical.
C2_SummaryCountsFindings ==
    runs > 0 =>
        /\ \A cat \in {"BUG", "REFACTOR", "SUGGESTION"} :
              /\ (SummaryLines(cat) # {}) <=> (CommentsOfCategory(cat) # {})
              /\ \A i \in SummaryLines(cat) :
                    summary[i].n = Cardinality(CommentsOfCategory(cat))
        /\ LET critical == {i \in DOMAIN comments : comments[i].severity = "critical"}
           IN  /\ critical # {} => SummaryLines("critical") # {}
               /\ \A i \in SummaryLines("critical") : summary[i].n = Cardinality(critical)

CategoryOrder(cat) ==
    CASE cat = "BUG" -> 1 [] cat = "REFACTOR" -> 2 [] OTHER -> 3

\* C3: in the findings a review returns, BUG findings come before REFACTOR
\* findings, which come before SUGGESTION findings, and within a category
\* confidence does not increase.
C3_FindingsSorted ==
    \A i, j \in DOMAIN comments :
        i < j =>
            /\ CategoryOrder(comments[i].category) <= CategoryOrder(comments[j].category)
            /\ comments[i].category = comments[j].category
                  => comments[i].confidence >= comments[j].confidence

\* C4: scenario A, the hardcoded API key line in a production JavaScript
\* file, gives exactly one finding: BUG, critical, red circle, confidence 86.
C4_ScenarioA ==
    \A r \in review :
        r.files = <<[filename |-> PathSrcJs, content |-> <<LineApiKey>>]>>
        => /\ Len(comments) = 1
           /\ comments[1].category = "BUG"
           /\ comments[1].severity = "critical"
           /\ comments[1].emoji = "red_circle"
           /\ comments[1].confidence = 86

\* C5: scenario C, console.log("debug") in src/foo.js under the rule
\* "Remove console.log statements before merging", gives exactly one
\* finding: SUGGESTION, low, confidence 74.
C5_ScenarioC ==
    \A r \in review :
        /\ r.instructions = InstructionsConsole
        /\ r.files = <<[filename |-> PathSrcJs, content |-> <<LineConsole>>]>>
        => /\ Len(comments) = 1
           /\ comments[1].category = "SUGGESTION"
           /\ comments[1].severity = "low"
           /\ comments[1].confidence = 74

ConsoleMessages == {NoConsoleIssue.message, NoPrintIssue.message}

\* C6: a review has no console.log / print finding for a file of type test,
\* mock or script, whatever its lines and whatever the rules say.
C6_HardSuppression ==
    \A r \in review : \A f \in DOMAIN r.files :
        detectFileType(r.files[f].filename) \in {"test", "mock", "script"}
        => \A k \in DOMAIN comments :
              comments[k].path = r.files[f].filename
              => comments[k].message \notin ConsoleMessages

\* scenario B: console.log("debug") in tests/foo.test.js under the console
\* rule has been reviewed and gave no finding
C6_ScenarioB ==
    \E r \in review :
        /\ r.instructions = InstructionsConsole
        /\ r.files = <<[filename |-> PathTestJs, content |-> <<LineConsole>>]>>
        /\ comments = <<>>

\* C7: an issue tagged security is categorized BUG with severity critical,
\* whatever its other tags, its ruleId and its confidence.
C7_SecurityIsCriticalBug ==
    \A c \in categorized :
        "security" \in c.issue.tags
        => c.info.category = "BUG" /\ c.info.severity = "critical"

\* a security issue that also carries a refactor tag and a refactor ruleId
\* has been categorized
C7_SecurityCategorized ==
    \E c \in categorized :
        /\ c.issue.tags = {"security", "performance"}
        /\ c.issue.ruleId = "function-length"
        /\ c.info.category = "BUG"

\* C8: an issue in both the bug-signal and the refactor-signal table is a BUG
\* with sortOrder 1; an issue in neither table is a SUGGESTION of severity low.
C8_CategoryPriority ==
    \A c \in categorized :
        LET inBugTable == c.issue.tags \cap bugTags # {} \/ c.issue.ruleId \in bugRuleIds
            inRefactorTable == \/ c.issue.tags \cap refactorTags # {}
                               \/ c.issue.ruleId \in refactorRuleIds
        IN  /\ inBugTable /\ inRefactorTable
                => c.info.category = "BUG" /\ c.info.sortOrder = 1
            /\ ~inBugTable /\ ~inRefactorTable
                => c.info.category = "SUGGESTION" /\ c.info.severity = "low"

\* an issue with a bug tag and a refactor tag has been categorized
C8_BothTablesCategorized ==
    \E c \in categorized :
        /\ c.issue.tags = {"crash", "performance"}
        /\ c.issue.ruleId = None
        /\ c.info.sortOrder = 1

WithoutCategory(o) ==
    [tags |-> o.tags, ruleId |-> o.ruleId, confidence |-> o.confidence]

\* C9: categorizeMultiple returns its input issues, each once and each with
\* its category fields, ordered by sortOrder ascending and then by confidence
\* descending (an issue without confidence counts as 0); total is the input
\* length and both the category counts and the severity counts add up to it.
C9_CategorizeMultiple ==
    \A r \in catOut :
        /\ Len(r.issues) = Len(catIn)
        /\ \A x \in ListIssues :
              Cardinality({i \in DOMAIN catIn : catIn[i] = x})
              = Cardinality({i \in DOMAIN r.issues : WithoutCategory(r.issues[i]) = x})
        /\ \A i \in DOMAIN r.issues :
              r.issues[i] = Spread(WithoutCategory(r.issues[i]),
                                   categorize(WithoutCategory(r.issues[i])))
        /\ \A i, j \in DOMAIN r.issues :
              i < j =>
                 /\ r.issues[i].sortOrder <= r.issues[j].sortOrder
                 /\ r.issues[i].sortOrder = r.issues[j].sortOrder
                       => ConfidenceOr0(r.issues[i]) >= ConfidenceOr0(r.issues[j])
        /\ r.stats.total = Len(catIn)
        /\ r.stats.bugs + r.stats.refactors + r.stats.suggestions = r.stats.total
        /\ r.stats.critical + r.stats.high + r.stats.medium + r.stats.low
              = r.stats.total

\* a list that had to be reordered by category and by confidence
C9_ReorderedList ==
    \E r \in catOut :
        /\ Len(catIn) = MaxIssues
        /\ catIn[1].tags = {"style"} /\ catIn[1].confidence = 40
        /\ catIn[2].tags = {"style"} /\ catIn[2].confidence = 90
        /\ catIn[3].tags = {"security"}
        /\ r.issues[1].category = "BUG"

C12_FindingRendering ==
    \A f \in formatted :
        LET c == f.comment
            text == SelectSeq(f.body, LAMBDA l : l # BlankLine)
        IN  /\ Len(f.body) >= 3
            /\ f.body[1] = [kind |-> "header", emoji |-> c.emoji,
                            category |-> c.category,
                            confidenceEmoji |->
                                IF c.confidence >= 90 THEN "target"
                                ELSE IF c.confidence >= 75 THEN "check"
                                ELSE IF c.confidence >= 60 THEN "warning"
                                ELSE "question",
                            confidence |-> c.confidence]
            /\ f.body[2] = BlankLine
            /\ f.body[3] = [kind |-> "message", text |-> c.message]
            /\ text = <<f.body[1], f.body[3]>>
                      \o (IF c.suggestion # None
                          THEN <<[kind |-> "suggestion", text |-> c.suggestion]>>
                          ELSE <<>>)

\* C13: a review tool makes posting calls only when its effective mode, the
\* mode argument or else the configured mode, is direct.
C13_PostsOnlyInDirectMode ==
    \A v \in invocation :
        LET effectiveMode == IF v.mode # None THEN v.mode ELSE config.review.mode
        IN  effectiveMode # "direct" => v.posted = <<>>

\* C14: with the rule "Use const by default, let when reassignment needed,
\* avoid var" under the heading "### JavaScript/TypeScript", a review of a
\* .js file with the line "var x = 1" has a no-var finding.
C14_JavaScriptTypeScriptBucket ==
    \A v \in invocation :
        /\ v.document = <<"## Style (Language-Specific)", "### JavaScript/TypeScript",
                          "- Use const by default, let when reassignment needed, avoid var">>
        /\ v.files = <<[filename |-> PathSrcJs, content |-> <<LineVar>>]>>
        => \E k \in DOMAIN v.comments : v.comments[k].message = NoVarIssue.message

\* C15: feedback recorded for a rule is read by the scorer of every later
\* review run: the findings of the second review are scored against the
\* store as the feedback left it.
C15_FeedbackReachesLaterRuns ==
    [][runs = 1 /\ runs' = 2 =>
          \A r \in review :
              comments' = analyzeFiles(ruleHistory, r.instructions, r.files, EmptyMap)]_vars

\* C16: a step that changes the store changes the entry of one ruleId only,
\* adding one to exactly one of its counters (counting from 0/0 when the
\* entry is new), keeps every other entry and leaves the scores already
\* returned as they are; a step that scores leaves the store as it is.
C16_RecordFeedbackFrame ==
    [][/\ ruleHistory' # ruleHistory =>
            /\ scored' = scored
            /\ \E ruleId \in DOMAIN ruleHistory' :
                  LET old == IF ruleId \in DOMAIN ruleHistory THEN ruleHistory[ruleId]
                             ELSE [correct |-> 0, falsePositive |-> 0]
                      new == ruleHistory'[ruleId]
                  IN  /\ DOMAIN ruleHistory' = DOMAIN ruleHistory \cup {ruleId}
                      /\ \A r \in DOMAIN ruleHistory \ {ruleId} :
                            ruleHistory'[r] = ruleHistory[r]
                      /\ \/ new.correct = old.correct + 1
                            /\ new.falsePositive = old.falsePositive
                         \/ new.correct = old.correct
                            /\ new.falsePositive = old.falsePositive + 1
       /\ scored' # scored => ruleHistory' = ruleHistory]_vars

\* feedback for a second rule has been recorded after an issue of the first
\* rule was scored against the first rule's feedback
C16_FeedbackAfterScoring ==
    \E c \in scored :
        /\ c.issue.ruleId = "hardcoded-secrets"
        /\ c.score # calculateConfidence(EmptyMap, c.issue, c.context)
        /\ DOMAIN ruleHistory = {"hardcoded-secrets", "no-console"}
        /\ ruleHistory["hardcoded-secrets"].falsePositive = 1
        /\ c.score = calculateConfidence(ruleHistory, c.issue, c.context)

\* C17: a CodeAnalyzer never exists without a rule set, since construction
\* without one fails, and no later method of it throws for want of a rule set.
C17_FailsFastWithoutRules ==
    /\ \A a \in analyzer : a.instructions # {}
    /\ thrown \notin {"getRelevantInstructions", "generateSummary"}

IntentTypes ==
    {"feat", "fix", "refactor", "perf", "docs", "test", "chore", "style", "build", "ci"}

RecognisedLabel(label) ==
    \E word \in {"breaking", "security", "hotfix", "urgent", "wip", "draft"} :
        Includes(ToLowerCase(labelName(label)), word)

C19_DraftLabelIsLenient ==
    \A i \in prIntent :
        LET titled == analyzePRIntent(i.prTitle, i.prBody, <<>>)
        IN  /\ (\E l \in DOMAIN i.labels :
                    \/ Includes(ToLowerCase(labelName(i.labels[l])), "wip")
                    \/ Includes(ToLowerCase(labelName(i.labels[l])), "draft"))
                => /\ "isDraft" \in DOMAIN i.result
                   /\ i.result.isDraft
                   /\ i.result.strictness = "lenient"
            /\ \A flag \in {"expectTests", "expectDocs", "allowLargeDiffs",
                              "expectBenchmarks", "skipCodeChecks"} :
                  titled[flag] => i.result[flag]
            /\ \A a \in DOMAIN titled.focusAreas :
                  i.result.focusAreas[a] = titled.focusAreas[a]

\* C20: the pattern-match sub-score of a scored issue is 30 when it is tagged
\* security, else 25 for match type exact or ast, 20 for regex, 10 for
\* keyword and 15 without a match type; so it is 30 for the issues of the
\* security detectors and 20 for those of the rule-driven detectors, which
\* carry match type regex and no pattern property.
C20_PatternMatchScore ==
    \A c \in scored :
        scorePatternMatch(c.issue) =
            IF "security" \in c.issue.tags THEN 30
            ELSE IF c.issue.matchType \in {"exact", "ast"} THEN 25
            ELSE IF c.issue.matchType = "regex" THEN 20
            ELSE IF c.issue.matchType = "keyword" THEN 10
            ELSE 15

\* C21: the history sub-score of a ruleId with an entry in the store is
\* floor(20 * correct / (correct + falsePositive)), whatever the fixed table
\* says; without an entry it is 18 for the high-confidence identifiers, 14
\* for the medium-confidence ones and 10 otherwise, a missing ruleId
\* included. It lies in 0..20; a correct feedback on an existing entry never
\* lowers it and a false-positive feedback never raises it.
C21_HistorySubScore ==
    /\ [](\A c \in historyScore :
            /\ c.score \in 0..20
            /\ IF c.ruleId # None /\ c.ruleId \in DOMAIN c.history
               THEN LET correct == c.history[c.ruleId].correct
                        falsePositive == c.history[c.ruleId].falsePositive
                    IN  /\ 20 * correct >= c.score * (correct + falsePositive)
                        /\ 20 * correct < (c.score + 1) * (correct + falsePositive)
               ELSE c.score =
                        IF c.ruleId \in {"sql-injection", "xss-vulnerability",
                                         "hardcoded-secrets", "null-reference",
                                         "undefined-variable"} THEN 18
                        ELSE IF c.ruleId \in {"function-length", "complexity",
                                              "no-console", "no-var"} THEN 14
                        ELSE 10)
    /\ [][\A r \in DOMAIN ruleHistory :
            /\ ruleHistory'[r].correct > ruleHistory[r].correct
                 => scoreHistory(ruleHistory', r) >= scoreHistory(ruleHistory, r)
            /\ ruleHistory'[r].falsePositive > ruleHistory[r].falsePositive
                 => scoreHistory(ruleHistory', r) <= scoreHistory(ruleHistory, r)]_vars

\* the sub-score of a rule of the high-confidence list has been read from an
\* entry of two correct reports and one false positive: 13, not 13.33 or 18
C21_FlooredHistoryRead ==
    \E c \in historyScore :
        /\ c.ruleId = "hardcoded-secrets"
        /\ c.ruleId \in DOMAIN c.history
        /\ c.history[c.ruleId] = [correct |-> 2, falsePositive |-> 1]
        /\ c.score = 13

\* C22: detectFileType gives every path exactly one of the eight file types:
\* the type of the first predicate group the normalized path satisfies, in the
\* order test, mock, config, migration, script, types, build, and production
\* when it satisfies none. Two paths that differ only in letter case or in
\* the direction of their slashes get the same type, and so does one path
\* analyzed with two contents.
FileTypeOrder ==
    <<"test", "mock", "config", "migration", "script", "types", "build">>

SatisfiedGroups(filename) ==
    LET p == NormalizedPath[filename]
    IN  {g \in 1..Len(FileTypeOrder) :
           \/ g = 1 /\ p \in TestSuffixPaths \cup TestDirPaths
           \/ g = 2 /\ p \in MockDirPaths
           \/ g = 3 /\ p \in ConfigPaths
           \/ g = 4 /\ p \in MigrationPaths
           \/ g = 5 /\ p \in ScriptPaths
           \/ g = 6 /\ p \in TypesPaths
           \/ g = 7 /\ p \in BuildPaths}

CaseAndSlashVariants ==
    {<<"src/app.js", "SRC\\App.JS">>,
     <<"src/__tests__/__mocks__/api.js", "Src\\__Tests__\\__Mocks__\\Api.js">>,
     <<"config/migrations/2024_01_02_init.sql",
       "Config\\Migrations\\2024_01_02_init.SQL">>,
     <<"webpack.config.js", "Webpack.Config.JS">>}

C22_FirstMatchWins ==
    /\ \A c \in fileIntents :
          LET groups == SatisfiedGroups(c.filename)
          IN  c.type = IF groups = {} THEN "production"
                       ELSE FileTypeOrder[CHOOSE g \in groups :
                                            \A h \in groups : g <= h]
    /\ \A c, d \in fileIntents :
          \/ c.filename = d.filename
          \/ <<c.filename, d.filename>> \in CaseAndSlashVariants
          => c.type = d.type

\* a path in a config directory that is also a dated migration has been
\* analyzed in both spellings and with contents of different purpose
C22_AmbiguousPathsAnalyzed ==
    \E c, d \in fileIntents :
        /\ c.filename = "config/migrations/2024_01_02_init.sql"
        /\ d.filename = "Config\\Migrations\\2024_01_02_init.SQL"
        /\ Cardinality(SatisfiedGroups(c.filename)) = 2
        /\ c.purpose = "debug" /\ d.purpose = None
        /\ c.type = "config" /\ d.type = "config"

\* C23: retryWithBackoff calls fn at most maxRetries + 1 times and comes to
\* an end. It returns the value of the first call that fulfils and calls fn
\* no more; an error of status 401, 403 or 404 is thrown at once, with no
\* sleep and no retry after it; otherwise, when the last attempt has failed,
\* the error of that attempt is thrown. The k-th wait lasts
\* initialDelay * backoffMultiplier^(k-1), onRetry is invoked once before each
\* wait, and no wait follows the final attempt.
RECURSIVE Power(_, _)
Power(b, e) == IF e = 0 THEN 1 ELSE b * Power(b, e - 1)

RetryTraceOk(r) ==
    LET n == Len(r.calls)
        waits == Len(r.sleeps) + (IF r.pc = "sleep" THEN 1 ELSE 0)
    IN  /\ n <= r.maxRetries + 1
        /\ \A k \in 1..n :
              r.calls[k].ok \/ r.calls[k].status \in {401, 403, 404}
              => k = n /\ r.pc \in {"returned", "thrown"}
        /\ r.pc = "returned" => n >= 1 /\ r.calls[n].ok /\ r.value = {r.calls[n]}
        /\ r.pc = "thrown" =>
              /\ n >= 1 /\ ~r.calls[n].ok /\ r.value = {r.calls[n]}
              /\ r.calls[n].status \in {401, 403, 404} \/ n = r.maxRetries + 1
        /\ \A k \in 1..Len(r.sleeps) :
              r.sleeps[k] = r.initialDelay * Power(r.backoffMultiplier, k - 1)
        /\ waits = (IF r.pc \in {"returned", "thrown", "sleep"} THEN n - 1 ELSE n)
                    + (IF r.pc = "sleep" THEN 1 ELSE 0)
        /\ waits <= r.maxRetries
        /\ Len(r.onRetryCalls) = (IF r.onRetry THEN waits ELSE 0)
        /\ \A k \in 1..Len(r.onRetryCalls) :
              /\ r.onRetryCalls[k].attempt = k
              /\ r.onRetryCalls[k].error = r.calls[k]
              /\ r.onRetryCalls[k].delay =
                    r.initialDelay * Power(r.backoffMultiplier, k - 1)

C23_RetryBoundedAndEnds ==
    /\ [](retry.pc # "idle" => RetryTraceOk(retry))
    /\ (retry.pc = "call") ~> (retry.pc \in {"returned", "thrown"})

\* every attempt of a call with three retries has failed with a retryable
\* error and the last error has been thrown after three growing waits
C23_RetriesExhausted ==
    /\ retry.pc = "thrown"
    /\ retry.maxRetries = 3
    /\ Len(retry.calls) = 4
    /\ retry.sleeps = <<250, 750, 2250>>
    /\ Len(retry.onRetryCalls) = 3
    /\ retry.value = {Rejected(500, 3)}

\* C24: parseMarkdown stores every rule line outside a fenced code block in
\* exactly one bucket: the language bucket of the latest subsection header
\* when no category header followed it, else the category bucket of the
\* latest category header, else global; the rules of a bucket are in document
\* order, and the lines inside a fence give no rule, no bucket and no tone.
OutsideFence(content, i) ==
    /\ content[i] # "(fence)"
    /\ Cardinality({k \in 1..(i - 1) : content[k] = "(fence)"}) % 2 = 0

BucketAt(content, i) ==
    LET headers == {k \in 1..(i - 1) :
                      /\ OutsideFence(content, k)
                      /\ Markdown[content[k]].prefix \in {"## ", "### "}}
    IN  IF headers = {} THEN <<"global", "">>
        ELSE LET h == CHOOSE k \in headers : \A j \in headers : j <= k
             IN  <<Markdown[content[h]].prefix, ToLowerCase(Markdown[content[h]].rest)>>

RECURSIVE RulesInOrder(_, _, _)
RulesInOrder(content, bucket, i) ==
    IF i > Len(content) THEN <<>>
    ELSE (IF /\ Markdown[content[i]].prefix = "- "
             /\ OutsideFence(content, i)
             /\ BucketAt(content, i) = bucket
          THEN <<parseRule(Markdown[content[i]].rest)>> ELSE <<>>)
         \o RulesInOrder(content, bucket, i + 1)

BucketsOpened(content, prefix) ==
    {ToLowerCase(Markdown[content[k]].rest) :
        k \in {j \in 1..Len(content) :
                 OutsideFence(content, j) /\ Markdown[content[j]].prefix = prefix}}

C24_BucketAssignment ==
    \A p \in parsed :
        LET i == p.instructions
        IN  /\ ~p.threw
            /\ i.global = RulesInOrder(p.content, <<"global", "">>, 1)
            /\ {i.categories[c].name : c \in DOMAIN i.categories}
                  \subseteq BucketsOpened(p.content, "## ")
            /\ \A name \in BucketsOpened(p.content, "## ") :
                  LET rules == RulesInOrder(p.content, <<"## ", name>>, 1)
                  IN  \/ \E c \in DOMAIN i.categories :
                            i.categories[c] = [name |-> name, rules |-> rules]
                      \/ rules = <<>>
            /\ DOMAIN i.languageSpecific \subseteq BucketsOpened(p.content, "### ")
            /\ \A l \in BucketsOpened(p.content, "### ") :
                  LET rules == RulesInOrder(p.content, <<"### ", l>>, 1)
                  IN  \/ l \in DOMAIN i.languageSpecific /\ i.languageSpecific[l] = rules
                      \/ rules = <<>>
            /\ i.tone \in {""} \cup
                  {p.content[k] : k \in {j \in 1..Len(p.content) :
                                            OutsideFence(p.content, j)}}

\* C25: for each file of a unified diff getChangedLines returns exactly the
\* added lines of its hunks, in order, each numbered by the new-start of its
\* hunk plus the count of the context and added lines before it in the hunk;
\* removed lines are not reported and do not advance the number; and the
\* numbers are the lineNumbers parseDiff records for the same changes.
AddedLines(hunk) ==
    LET added == {k \in DOMAIN hunk.changes : hunk.changes[k].type = "+"}
        nth(n) == CHOOSE k \in added : Cardinality({j \in added : j < k}) = n - 1
    IN  [n \in 1..Cardinality(added) |->
            [line |-> hunk.newStart
                      + Cardinality({j \in 1..(nth(n) - 1) :
                                        hunk.changes[j].type \in {"+", " "}}),
             content |-> hunk.changes[nth(n)].content]]

RecordedAdditions(file) ==
    Flatten([h \in DOMAIN file.hunks |->
        LET changes == file.hunks[h].changes
            added == {k \in DOMAIN changes : changes[k].type = "+"}
            nth(n) == CHOOSE k \in added : Cardinality({j \in added : j < k}) = n - 1
        IN  [n \in 1..Cardinality(added) |->
                [line |-> changes[nth(n)].lineNumber,
                 content |-> changes[nth(n)].content]]])

C25_ChangedLinesOfDiff ==
    \A v \in diffed :
        /\ DOMAIN v.changedLines = {v.diff[f].path : f \in DOMAIN v.diff}
        /\ \A f \in DOMAIN v.diff :
              v.changedLines[v.diff[f].path] =
                  Flatten([h \in DOMAIN v.diff[f].hunks |->
                              AddedLines(v.diff[f].hunks[h])])
        /\ \A f \in DOMAIN v.files :
              v.changedLines[v.files[f].path] = RecordedAdditions(v.files[f])

\* C26: in github_review_pr every finding for a file that has a patch is on a
\* line the patch added, whether or not the patch text has the file header
\* lines, and also when the patch adds no line.
RECURSIVE LinesAdded(_, _)
LinesAdded(patch, number) ==
    IF patch = <<>> THEN {}
    ELSE LET line == Head(patch)
         IN  IF line.type = "@" THEN LinesAdded(Tail(patch), line.newStart)
             ELSE IF line.type = " " THEN LinesAdded(Tail(patch), number + 1)
             ELSE IF line.type = "+" /\ line.content \in Lines
             THEN {number} \cup LinesAdded(Tail(patch), number + 1)
             ELSE LinesAdded(Tail(patch), number)

C26_FindingsOnAddedLines ==
    \A v \in invocation :
        v.tool = "github_review_pr" =>
            \A f \in DOMAIN v.files :
                "patch" \in DOMAIN v.files[f] =>
                    \A k \in DOMAIN v.comments :
                        v.comments[k].path = v.files[f].filename
                        => v.comments[k].line \in LinesAdded(v.files[f].patch, 0)

\* C27: every loadInstructions call without a path that resolves, resolves to
\* the parsed default instruction set, never to an empty object - also when
\* it starts while the default file is still being read for an earlier call,
\* and when an earlier load of the default file has failed.
C27_DefaultLoadComplete ==
    \A k \in DOMAIN manager.trace :
        LET e == manager.trace[k]
        IN  e.kind = "resolve" /\ e.path = None
            => e.value = {Parsed(DefaultPath, "default", v.by) : v \in e.value}

\* C28: once a loadInstructions call for a path has resolved, every call for
\* the path that starts later and before a clearCache returns that same
\* object and reads no file; the first call for the path after a clearCache
\* reads the file; a load that fails does not change the cache; and a load
\* that fell back to the defaults stores them in the cache under the path.
EventsOf(call, kind) ==
    {k \in DOMAIN manager.trace :
        manager.trace[k].call = call /\ manager.trace[k].kind = kind}

C28_CacheUntilCleared ==
    /\ [](\A r, s \in DOMAIN manager.trace :
            LET resolved == manager.trace[r]
                later == manager.trace[s]
            IN  /\ r < s
                /\ resolved.kind = "resolve" /\ resolved.path = CustomPath
                /\ later.kind = "call" /\ later.path = CustomPath
                /\ \A x \in r..s : manager.trace[x].kind # "clear"
                => /\ EventsOf(later.call, "readFile") = {}
                   /\ \A k \in EventsOf(later.call, "resolve") :
                         manager.trace[k].value = resolved.value)
    /\ [](\A c, s \in DOMAIN manager.trace :
            /\ c < s
            /\ manager.trace[c].kind = "clear"
            /\ manager.trace[s].kind = "call" /\ manager.trace[s].path = CustomPath
            /\ \A x \in (c + 1)..(s - 1) :
                  ~(manager.trace[x].kind = "call" /\ manager.trace[x].path = CustomPath)
            => EventsOf(manager.trace[s].call, "readFile") # {})
    /\ [][LET e == manager'.trace[Len(manager'.trace)]
          IN  manager' # manager =>
                /\ e.kind = "reject" => manager'.cache = manager.cache
                /\ e.kind = "resolve" /\ e.path = CustomPath
                     => manager'.cache[CustomPath] \in e.value \/
                        manager.calls[e.call].pc \notin {"reading", "readingFallback"}]_vars

\* C29: manager.getRelevantInstructions leaves the instruction set it is
\* given unchanged: every category and language bucket holds the same rules
\* after a call as before it, and two calls with the same arguments return
\* equal results.
C29_InstructionsUnchanged ==
    /\ [](\A i \in DOMAIN relevantCalls.calls :
            relevantCalls.instructions = {relevantCalls.calls[i].given})
    /\ [](\A i, j \in DOMAIN relevantCalls.calls :
            /\ relevantCalls.calls[i].language = relevantCalls.calls[j].language
            /\ relevantCalls.calls[i].categories = relevantCalls.calls[j].categories
            => relevantCalls.calls[i].result = relevantCalls.calls[j].result)

\* C30: bitbucketService.submitReview posts strictly sequentially. The
\* comments on the pull request are the summary (when non-empty) followed by
\* the formatted comments in the order of the comments array, at most one
\* post is in flight and it is the one after those posted; a call that
\* returns has posted them all and reports their number; a call that throws
\* has posted fewer, posts nothing afterwards, and what was posted remains.
SummaryPosts(s) == IF s.summary # <<>> THEN 1 ELSE 0

PostedInOrder(s) ==
    \A k \in DOMAIN s.posted :
        IF k <= SummaryPosts(s)
        THEN /\ "inline" \notin DOMAIN s.posted[k]
             /\ s.posted[k].content = s.summary
        ELSE LET comment == s.comments[k - SummaryPosts(s)]
             IN  /\ "inline" \in DOMAIN s.posted[k]
                 /\ s.posted[k].inline = [path |-> comment.path, line |-> comment.line]
                 /\ s.posted[k].content = BitbucketFormatCommentBody(comment)

C30_SequentialPosting ==
    /\ [](/\ PostedInOrder(submission)
          /\ Len(submission.posted) <= SummaryPosts(submission) + Len(submission.comments)
          /\ submission.inFlight \subseteq {Len(submission.posted) + 1}
          /\ submission.pc = "returned" =>
                /\ Len(submission.posted)
                      = SummaryPosts(submission) + Len(submission.comments)
                /\ \A r \in submission.result :
                      r.success /\ r.comment_count = Len(submission.posted)
                /\ submission.result # {}
          /\ submission.pc = "thrown" =>
                /\ Len(submission.posted)
                      < SummaryPosts(submission) + Len(submission.comments)
                /\ submission.inFlight = {}
                /\ submission.result = {})
    /\ [][/\ Len(submission'.posted) >= Len(submission.posted)
          /\ SubSeq(submission'.posted, 1, Len(submission.posted)) = submission.posted
          /\ submission.pc = "thrown" => submission'.posted = submission.posted]_vars

\* a post failed for good after a retry, with the summary and the first
\* comment already on the pull request
C30_FailedAfterTwoPosts ==
    /\ submission.pc = "thrown"
    /\ submission.attempt >= 1
    /\ submission.summary # <<>>
    /\ Len(submission.comments) = 2
    /\ Len(submission.posted) = 2

====
